---- MODULE Spec2Model ----
(***************************************************************************)
(* Transmit/receive data path of the i40e driver                           *)
(* (usr/src/uts/common/io/i40e/i40e_transceiver.c).                        *)
(*                                                                         *)
(* The model follows the production (non-DEBUG) build: ASSERT() compiles   *)
(* to nothing, VERIFY() and panic() stop the machine (panicked = TRUE).    *)
(* Code that runs with itrq_tx_lock held from mutex_enter to mutex_exit is *)
(* one action; so every state of the model is a state in which the TX lock *)
(* is not held.  The same holds for itrq_tcb_lock and rxd_free_lock.       *)
(*                                                                         *)
(* uint32_t values that can wrap (itrq_desc_free) are kept as the          *)
(* representative of their residue class modulo 2^32 that lies in          *)
(* [-2^31, 2^31): -1 stands for 2^32 - 1.  U32Lt is the unsigned order.    *)
(***************************************************************************)
EXTENDS Integers, Sequences, FiniteSets, TLC

(***************************************************************************)
(* Bounds of the model.                                                    *)
(***************************************************************************)
\* i40e_tx_ring_size: number of TX descriptors of the ring
TxRingSize == 3
\* i40e_tx_block_thresh: the configured block threshold
TxBlockThresh == 2
\* i40e_tx_dma_min: the TX copy threshold, in the unit of MaxBlkLen
TxDmaMin == 1
\* longest b_cont chain handed to i40e_ring_tx
MaxBlks == 2
\* largest MBLKL() of one link of the chain
MaxBlkLen == 1
\* most cookies ddi_dma_addr_bind_handle returns for one fragment
MaxCookies == 2
\* frames handed to i40e_ring_tx over one run
MaxFrames == 2

\* i40e_rx_ring_size: number of RX descriptors of the ring
RxRingSize == 3
\* i40e_rx_dma_min: frames at least this long are bound, shorter ones copied
RxDmaMin == 2
\* longest frame the hardware writes into one buffer
MaxPlen == 2
\* i40e_rx_limit_per_intr
RxLimitPerIntr == 1
\* the byte quota mac passes to a polling call
RxPollBytes == 3
\* frames the hardware receives over one run
MaxRxFrames == 4

NumTrqpairs == 2

AllocRxRingSize == 1

AllocTxRingSize == 2

NULL == 0

\* the poll_bytes of a call from the interrupt handler
I40E_POLL_NULL == -1

TxThreads == {"t1"}

TxIndex == 0 .. (TxRingSize - 1)

\* i40e_alloc_tx_dma: free list is 1.5 times the ring
TxFreeListSize == TxRingSize + (TxRingSize \div 2)

TcbIds == 1 .. TxFreeListSize

Frames == 1 .. MaxFrames

RxIndex == 0 .. (RxRingSize - 1)

\* i40e_alloc_rx_data: the free list is as long as the ring
RxFreeListSize == RxRingSize

RcbIds == 1 .. (RxRingSize + RxFreeListSize)

VARIABLES
    i40e_state,          \* subset of {"STARTED","OVERTEMP","SUSPENDED","ERROR"}
    i40e_link_state,     \* "UP" or "DOWN"
    qtx_ena,             \* I40E_QTX_ENA: the hardware queue is enabled
    qtx_tail,            \* I40E_QTX_TAIL register
    itrq_desc_ring,      \* the TX descriptors
    itrq_desc_wbhead,    \* the write-back head the hardware writes
    itrq_desc_head,
    itrq_desc_tail,
    itrq_desc_free,
    itrq_tx_blocked,
    itrq_tcb_work_list,
    itrq_tcb_free_list,  \* stack, itrq_tcb_free is its length
    tcbs,                \* the tx control blocks (itrq_tcb_area)
    tx,                  \* one activation record of i40e_ring_tx per thread
    rc,                  \* the activation record of i40e_tx_recycle_ring
    tx_intr,             \* a TX completion interrupt is pending
    mp_frees,            \* per frame: number of freemsg() calls on it
    mp_next,             \* next frame MAC hands to the driver
    mp_returned,         \* frames i40e_ring_tx has returned to its caller
    mac_updates,         \* number of mac_tx_ring_update() calls
    tx_last,             \* how the last finished i40e_ring_tx call ended
    qtx_tail_synced,     \* what was synced for the device when I40E_QTX_TAIL
                         \* was last written
    meoi,                \* a call of mac_ether_offload_info: its frame, its
                         \* tunnel type and what it returned
    mac_blocked,         \* MAC holds a returned frame and waits for the update
    panicked,            \* panic(), failed VERIFY() or NULL dereference
    rxd_desc_ring,       \* the RX descriptors
    rxd_desc_next,
    rxd_work_list,
    rxd_free_list,       \* array of rxd_free_list_size entries
    rxd_rcb_free,        \* number of entries of rxd_free_list in use
    rxd_rcb_pending,
    rxd_shutdown,
    rxd_alive,           \* the i40e_rx_data_t has not been freed
    i40e_rx_pending,
    rcbs,                \* the rx control blocks (rxd_rcb_area)
    qrx_tail,            \* I40E_QRX_TAIL register
    rx_hw_next,          \* next descriptor the hardware fills
    rx_hw_count,         \* descriptors the hardware has filled so far
    rx,                  \* the activation record of i40e_ring_rx
    rxr,                 \* the activation record of i40e_rx_recycle
    rx_loaned,           \* per rcb: mblks of it held by the upstream stack
    irxs_packets,        \* itrq_rxstat.irxs_packets
    rxd_desc_area,       \* the DMA memory of the RX descriptor ring is held
    itrq_tx_dma,         \* the TX DMA memory and control blocks are held
    fr,                  \* the activation record of i40e_free_ring_mem
    rxd_frees,           \* number of i40e_free_rx_data() calls
    i40e_rx_pending_cv,  \* number of cv_broadcast() calls on the condition
    rxw,                 \* the thread that waits for the loans to drain
    itrq_rxdata,         \* itrq_rxdata is not NULL
    alloc,               \* the activation record of i40e_alloc_ring_mem
    i40e_trqpairs        \* per queue pair: what i40e_alloc_ring_mem builds

devvars == <<i40e_state, i40e_link_state, panicked>>

txonly == <<qtx_ena, qtx_tail, itrq_desc_ring,
            itrq_desc_wbhead, itrq_desc_head, itrq_desc_tail, itrq_desc_free,
            itrq_tx_blocked, itrq_tcb_work_list, itrq_tcb_free_list, tcbs,
            tx, rc, tx_intr, mp_frees, mp_next, mp_returned, mac_updates,
            tx_last, mac_blocked, qtx_tail_synced, meoi>>

txvars == <<devvars, txonly>>

rxvars == <<rxd_desc_ring, rxd_desc_next, rxd_work_list, rxd_free_list,
            rxd_rcb_free, rxd_rcb_pending, rxd_shutdown, rxd_alive,
            i40e_rx_pending, rcbs, qrx_tail, rx_hw_next, rx_hw_count, rx,
            rxr, rx_loaned, irxs_packets, rxd_desc_area, itrq_tx_dma, fr,
            rxd_frees, i40e_rx_pending_cv, rxw, itrq_rxdata, alloc,
            i40e_trqpairs>>

\* the allocation of the rings at start
allocvars == <<alloc, i40e_trqpairs>>

\* what the allocation of the rings does not touch
allocrest == <<i40e_state, i40e_link_state, txonly, rxd_desc_ring,
               rxd_desc_next, rxd_work_list, rxd_free_list, rxd_rcb_free,
               rxd_rcb_pending, rxd_shutdown, rxd_alive, i40e_rx_pending,
               rcbs, qrx_tail, rx_hw_next, rx_hw_count, rx, rxr, rx_loaned,
               irxs_packets, rxd_desc_area, itrq_tx_dma, fr, rxd_frees,
               i40e_rx_pending_cv, rxw, itrq_rxdata>>

\* what only the teardown of the rings and the drain of the loans change
downvars == <<rxd_desc_area, itrq_tx_dma, fr, rxd_frees, i40e_rx_pending_cv,
              rxw, itrq_rxdata, allocvars>>

vars == <<txvars, rxvars>>

(***************************************************************************)
(* Helpers.                                                                *)
(***************************************************************************)
U32Lt(a, b) == IF (a < 0) = (b < 0) THEN a < b ELSE b < 0

U32Dec(a) == IF a = 0 THEN -1 ELSE a - 1

U32Add(a, n) == a + n

i40e_next_desc(base, count, size) ==
    IF base + count < size THEN base + count ELSE base + count - size

ZeroDesc == [dtype |-> "zero", eop |-> FALSE, rs |-> FALSE]

\* tcb_dma_bound, tcb_lso_bound: tcb_dma_handle, tcb_lso_dma_handle is bound
ZeroTcb == [tcb_type |-> "NONE", tcb_mp |-> NULL, tcb_bind_ncookies |-> 0,
            tcb_bind_info |-> FALSE, tcb_used_lso |-> FALSE,
            tcb_dma_bound |-> FALSE, tcb_lso_bound |-> FALSE]

IdleTx == [pc |-> "idle", mp |-> NULL, offload |-> "none", mpsize |-> 0,
           nbufs |-> 0, tcb_ctx |-> NULL, tcb_data |-> NULL,
           tcb_dma_alloc |-> FALSE, tcb_dma |-> <<>>, needed_desc |-> 0,
           bf_tcb |-> NULL, bf_ncookies |-> 0, held |-> {},
           refused |-> FALSE, notified |-> FALSE, dma_synced |-> FALSE]

IdleRc == [pc |-> "idle", tcbhead |-> <<>>]

\* stepping back without the wrap at index zero
i40e_prev_desc_NoWrap(base, count, size) ==
    IF base >= count THEN base - count ELSE 0

i40e_prev_desc(base, count, size) ==
    IF base >= count THEN base - count ELSE base - count + size

\* a descriptor the driver has armed: no DD bit
ArmedRxDesc == [dd |-> FALSE, err |-> FALSE, plen |-> 0]

\* an array pointer that has been set to NULL: no element is left
NullArray == <<>>

(***************************************************************************)
(* DMA buffers (i40e_dma_buffer_t) and what i40e_alloc_ring_mem builds for *)
(* one queue pair.  A handle or an address is TRUE when it is not NULL.    *)
(***************************************************************************)
TrqIndex == 0 .. (NumTrqpairs - 1)

\* rxd_ring_size + rxd_free_list_size, the free list as long as the ring
AllocRcbCount == AllocRxRingSize + AllocRxRingSize

\* itrq_tx_free_list_size
AllocTcbCount == AllocTxRingSize + (AllocTxRingSize \div 2)

ZeroDma == [dmab_dma_address |-> FALSE, dmab_size |-> 0,
            dmab_acc_handle |-> FALSE, dmab_address |-> FALSE,
            dmab_dma_handle |-> FALSE, dmab_len |-> 0]

\* freeing a buffer without clearing the handle it has released
i40e_free_dma_buffer_KeepsHandle(d) ==
    [buf |-> [d EXCEPT !.dmab_dma_address = FALSE, !.dmab_size = 0,
                       !.dmab_acc_handle = FALSE, !.dmab_address = FALSE,
                       !.dmab_len = 0],
     released |-> (IF d.dmab_dma_address THEN 1 ELSE 0)
                + (IF d.dmab_acc_handle THEN 1 ELSE 0)
                + (IF d.dmab_dma_handle THEN 1 ELSE 0),
     panic |-> d.dmab_dma_address /\ ~d.dmab_dma_handle]

\* i40e_free_dma_buffer: the buffer it leaves, the number of DDI resources
\* it released (unbind, mem_free, free_handle), and the failed VERIFY
i40e_free_dma_buffer(d) ==
    [buf |-> [d EXCEPT !.dmab_dma_address = FALSE,
                       !.dmab_size = IF d.dmab_dma_address THEN 0 ELSE @,
                       !.dmab_acc_handle = FALSE,
                       !.dmab_address =
                           IF d.dmab_acc_handle THEN FALSE ELSE @,
                       !.dmab_dma_handle = FALSE,
                       !.dmab_len = 0],
     released |-> (IF d.dmab_dma_address THEN 1 ELSE 0)
                + (IF d.dmab_acc_handle THEN 1 ELSE 0)
                + (IF d.dmab_dma_handle THEN 1 ELSE 0),
     panic |-> d.dmab_dma_address /\ ~d.dmab_dma_handle]

\* where an allocation of a DMA buffer can fail
DmaFailures == {"none", "handle", "mem", "bind"}

\* the buffer as the failing step of i40e_alloc_dma_buffer leaves it, ahead
\* of the cleanup: the handle set NULL, the handle allocated and the memory
\* fields set NULL, or handle and memory allocated and nothing bound
DmaAtFailure(d, fail) ==
    IF fail = "handle"
    THEN [d EXCEPT !.dmab_dma_handle = FALSE]
    ELSE IF fail = "mem"
    THEN [d EXCEPT !.dmab_dma_handle = TRUE, !.dmab_address = FALSE,
                   !.dmab_acc_handle = FALSE]
    ELSE [d EXCEPT !.dmab_dma_handle = TRUE, !.dmab_address = TRUE,
                   !.dmab_acc_handle = TRUE]

\* the DDI resources i40e_alloc_dma_buffer has acquired when it fails at
\* step fail: ddi_dma_alloc_handle, ddi_dma_mem_alloc, the binding
DmaAcquired(fail) ==
    IF fail = "handle" THEN 0
    ELSE IF fail = "mem" THEN 1
    ELSE IF fail = "bind" THEN 2
    ELSE 3

\* the DDI resources i40e_alloc_dma_buffer releases before it returns
DmaAllocReleased(d, fail) ==
    IF fail \in {"mem", "bind"}
    THEN i40e_free_dma_buffer(DmaAtFailure(d, fail)).released
    ELSE 0

\* i40e_alloc_dma_buffer returning B_FALSE without its cleanup
i40e_alloc_dma_buffer_NoCleanup(d, fail) ==
    IF fail # "none"
    THEN DmaAtFailure(d, fail)
    ELSE [dmab_dma_address |-> TRUE, dmab_size |-> 1,
          dmab_acc_handle |-> TRUE, dmab_address |-> TRUE,
          dmab_dma_handle |-> TRUE, dmab_len |-> 0]

\* i40e_alloc_dma_buffer on buffer d, failing at step fail
i40e_alloc_dma_buffer(d, fail) ==
    IF fail = "handle"
    THEN DmaAtFailure(d, fail)
    ELSE IF fail \in {"mem", "bind"}
    THEN i40e_free_dma_buffer(DmaAtFailure(d, fail)).buf
    ELSE [dmab_dma_address |-> TRUE, dmab_size |-> 1,
          dmab_acc_handle |-> TRUE, dmab_address |-> TRUE,
          dmab_dma_handle |-> TRUE, dmab_len |-> 0]

ZeroRcb == [rcb_ref |-> 0, rcb_mp |-> FALSE, rcb_dma |-> ZeroDma]

ZeroAllocTcb == [tcb_dma_handle |-> FALSE, tcb_lso_dma_handle |-> FALSE,
                 tcb_dma |-> ZeroDma]

\* a queue pair before i40e_alloc_ring_mem: the zeroed i40e_trqpair_t.
\* rxd says that the i40e_rx_data_t is allocated, itrq_rxdata that the
\* pointer to it is set.
ZeroTrq ==
    [itrq_rxdata |-> FALSE, rxd |-> FALSE, rxd_work_list |-> FALSE,
     rxd_free_list |-> FALSE, rxd_rcb_area |-> FALSE,
     rxd_desc_area |-> ZeroDma,
     rcb |-> [i \in 0 .. (AllocRcbCount - 1) |-> ZeroRcb],
     rxd_rcb_pending |-> 0, rxd_shutdown |-> FALSE,
     itrq_desc_area |-> ZeroDma, itrq_tcb_work_list |-> FALSE,
     itrq_tcb_free_list |-> FALSE, itrq_tcb_area |-> FALSE,
     tcb |-> [i \in 0 .. (AllocTcbCount - 1) |-> ZeroAllocTcb]]

\* a queue pair after a successful i40e_alloc_ring_mem
TrqAllocated ==
    [itrq_rxdata |-> TRUE, rxd |-> TRUE, rxd_work_list |-> TRUE,
     rxd_free_list |-> TRUE, rxd_rcb_area |-> TRUE,
     rxd_desc_area |-> i40e_alloc_dma_buffer(ZeroDma, "none"),
     rcb |-> [i \in 0 .. (AllocRcbCount - 1) |->
                 [rcb_ref |-> 1, rcb_mp |-> TRUE,
                  rcb_dma |-> i40e_alloc_dma_buffer(ZeroDma, "none")]],
     rxd_rcb_pending |-> 0, rxd_shutdown |-> FALSE,
     itrq_desc_area |-> i40e_alloc_dma_buffer(ZeroDma, "none"),
     itrq_tcb_work_list |-> TRUE, itrq_tcb_free_list |-> TRUE,
     itrq_tcb_area |-> TRUE,
     tcb |-> [i \in 0 .. (AllocTcbCount - 1) |->
                 [tcb_dma_handle |-> TRUE, tcb_lso_dma_handle |-> TRUE,
                  tcb_dma |-> i40e_alloc_dma_buffer(ZeroDma, "none")]]]

IdleFr == [pc |-> "idle", i |-> 0]

IdleRx == [pc |-> "idle", poll_bytes |-> I40E_POLL_NULL, cur_head |-> 0,
           rx_bytes |-> 0, rx_frames |-> 0, mp_head |-> <<>>]

IdleRxr == [pc |-> "idle", rcb |-> NULL]

RECURSIVE SumSeq(_)
SumSeq(s) == IF s = <<>> THEN 0 ELSE Head(s) + SumSeq(Tail(s))

\* the chains MAC may hand down: 1..MaxBlks links, each 0..MaxBlkLen long,
\* not all of them empty
BlkChains ==
    { s \in UNION { [1 .. n -> 0 .. MaxBlkLen] : n \in 1 .. MaxBlks } :
        SumSeq(s) > 0 }

(***************************************************************************)
(* mac_ether_offload_info.  A frame is the total size of the message and   *)
(* the header fields the parser reads, for the outer headers and for the   *)
(* headers behind a VXLAN header; a field is read at the offset the parser *)
(* computes, and the read fails when the message is too short.             *)
(***************************************************************************)
ETHER_TYPE_OFF == 12

VLAN_ETHER_TYPE_OFF == 16

ETHER_HEADER_LEN == 14

ETHER_VLAN_HEADER_LEN == 18

IPHA_PROTOCOL_OFF == 9

IP6_NXT_OFF == 6

IP6_HDR_LEN == 40

TH_OFFSET_OFF == 12

UDPHDR_LEN == 8

SCTP_HDR_LEN == 12

VXLAN_HDR_LEN == 8

\* the message sizes tried: too short for the ethernet type, one byte
\* behind the ethernet header, the outer headers only, a whole tunnel
MeoiSizes == {13, 15, 100, 200}

\* the 4-bit header length fields tried
MeoiIhls == {4, 5, 15}

MeoiDoffs == {4, 5}

\* the header fields of one frame: ethernet type, the type behind a VLAN
\* tag, the IPv4 header length field, the L4 protocol, the TCP data offset
MeoiHdrs ==
    {h \in [ether : {"IP", "IPV6", "VLAN", "ARP"},
            vether : {"IP", "IPV6", "ARP"},
            ihl : MeoiIhls,
            proto : {"TCP", "UDP", "SCTP", "ICMP"},
            doff : MeoiDoffs] :
        h.ether # "VLAN" => h.vether = "ARP"}

MeoiTtypes == {"NONE", "VXLAN", "GENEVE"}

\* the calls tried; the headers behind the tunnel header matter to a
\* TTYPE_VXLAN call only
MeoiCalls ==
    {c \in [pc : {"call"}, mpsize : MeoiSizes, outer : MeoiHdrs,
            inner : MeoiHdrs, ttype : MeoiTtypes, ret : {0},
            flags : {{}}] :
        c.ttype # "VXLAN" => c.inner = c.outer}

\* no call
MeoiIdle == [pc |-> "idle"]

\* i40e_meoi_get_uint16: the overflow test
i40e_meoi_get_uint16(mpsize, off) == IF off + 2 > mpsize THEN -1 ELSE 0

\* i40e_meoi_get_uint8: the overflow test, with sizeof (uint16_t)
i40e_meoi_get_uint8(mpsize, off) == IF off + 2 > mpsize THEN -1 ELSE 0

\* mac_ether_offload_info with TTYPE_NONE on the headers h at starting_off:
\* the return value and the fields of meoi
MeoiParse(mpsize, h, starting_off) ==
    LET vlan == h.ether = "VLAN"
        ether == IF vlan THEN h.vether ELSE h.ether
        maclen == IF vlan THEN ETHER_VLAN_HEADER_LEN ELSE ETHER_HEADER_LEN
        l2 == (IF vlan THEN {"VLAN_TAGGED"} ELSE {}) \cup {"L2INFO_SET"}
        iplen == IF ether = "IP" THEN (h.ihl % 16) * 4 ELSE IP6_HDR_LEN
        l4len == IF h.proto = "TCP" THEN (h.doff % 16) * 4
                 ELSE IF h.proto = "UDP" THEN UDPHDR_LEN ELSE SCTP_HDR_LEN
        out(ret, flags) ==
            [ret |-> ret, flags |-> flags,
             l2hlen |-> IF "L2INFO_SET" \in flags THEN maclen ELSE 0,
             l3proto |-> IF "L2INFO_SET" \in flags THEN ether ELSE "none",
             l3hlen |-> IF "L3INFO_SET" \in flags THEN iplen ELSE 0,
             l4proto |-> IF "L3INFO_SET" \in flags THEN h.proto ELSE "none",
             l4hlen |-> IF "L4INFO_SET" \in flags THEN l4len ELSE 0]
    IN  IF i40e_meoi_get_uint16(mpsize, ETHER_TYPE_OFF + starting_off) # 0
        THEN out(-1, {})
        ELSE IF vlan /\ i40e_meoi_get_uint16(
                            mpsize, VLAN_ETHER_TYPE_OFF + starting_off) # 0
        THEN out(-1, {})
        ELSE IF ether \notin {"IP", "IPV6"}
        THEN out(0, l2)
        ELSE IF ether = "IP"
                /\ (\/ i40e_meoi_get_uint8(mpsize, maclen + starting_off) # 0
                    \/ h.ihl % 16 < 5
                    \/ h.ihl % 16 > 15
                    \/ i40e_meoi_get_uint8(
                           mpsize,
                           IPHA_PROTOCOL_OFF + maclen + starting_off) = -1)
        THEN out(-1, l2)
        ELSE IF ether = "IPV6"
                /\ i40e_meoi_get_uint8(
                       mpsize, IP6_NXT_OFF + maclen + starting_off) = -1
        THEN out(-1, l2)
        ELSE IF h.proto \notin {"TCP", "UDP", "SCTP"}
        THEN out(0, l2 \cup {"L3INFO_SET"})
        ELSE IF h.proto = "TCP"
                /\ (\/ i40e_meoi_get_uint8(
                          mpsize,
                          TH_OFFSET_OFF + maclen + iplen + starting_off) = -1
                    \/ h.doff % 16 < 5
                    \/ h.doff % 16 > 15)
        THEN out(-1, l2 \cup {"L3INFO_SET"})
        ELSE out(0, l2 \cup {"L3INFO_SET", "L4INFO_SET"})

MEOI_L2_L3_L4 == {"L2INFO_SET", "L3INFO_SET", "L4INFO_SET"}

\* mac_ether_offload_info(mp, meoi, ttype, 0) for the call c
mac_ether_offload_info(c) ==
    LET o == MeoiParse(c.mpsize, c.outer, 0)
        off == o.l2hlen + o.l3hlen + o.l4hlen + VXLAN_HDR_LEN
        i == MeoiParse(c.mpsize, c.inner, off)
    IN  IF c.ttype \notin {"NONE", "VXLAN"}
        THEN [ret |-> -1, flags |-> {}]
        ELSE IF o.ret # 0 \/ "L4INFO_SET" \notin o.flags
                \/ c.ttype # "VXLAN"
        THEN [ret |-> o.ret, flags |-> o.flags]
        ELSE IF o.l4proto # "UDP"
        THEN [ret |-> -1, flags |-> o.flags]
        ELSE IF i.ret # 0
        THEN [ret |-> i.ret, flags |-> o.flags]
        ELSE IF ~(MEOI_L2_L3_L4 \subseteq i.flags)
        THEN [ret |-> -1, flags |-> o.flags]
        ELSE [ret |-> 0, flags |-> o.flags \cup {"TUNNEL_INFO_SET"}]

\* one call of mac_ether_offload_info
MeoiCall ==
    /\ meoi.pc = "call"
    /\ LET r == mac_ether_offload_info(meoi)
       IN  meoi' = [meoi EXCEPT !.pc = "done", !.ret = r.ret,
                                !.flags = r.flags]
    /\ UNCHANGED <<devvars, qtx_ena, qtx_tail, itrq_desc_ring,
                   itrq_desc_wbhead, itrq_desc_head, itrq_desc_tail,
                   itrq_desc_free, itrq_tx_blocked, itrq_tcb_work_list,
                   itrq_tcb_free_list, tcbs, tx, rc, tx_intr, mp_frees,
                   mp_next, mp_returned, mac_updates, tx_last, mac_blocked,
                   qtx_tail_synced, rxvars>>

\* the RX side after i40e_alloc_rx_data and i40e_alloc_rx_dma, every
\* desballoc having succeeded, and after the ring has been started with the
\* tail register on the last descriptor
InitRx ==
    /\ rxd_desc_ring = [i \in RxIndex |-> ArmedRxDesc]
    /\ rxd_desc_next = 0
    /\ rxd_work_list = [i \in RxIndex |-> i + 1]
    /\ rxd_free_list = [i \in 0 .. (RxFreeListSize - 1) |-> RxRingSize + i + 1]
    /\ rxd_rcb_free = RxFreeListSize
    /\ rxd_rcb_pending = 0
    /\ rxd_shutdown = FALSE
    /\ rxd_alive = TRUE
    /\ i40e_rx_pending = 0
    /\ rcbs = [r \in RcbIds |->
                  [rcb_ref |-> 1, rcb_mp |-> TRUE, rcb_dma |-> TRUE]]
    /\ qrx_tail = RxRingSize - 1
    /\ rx_hw_next = 0
    /\ rx_hw_count = 0
    /\ rx = IdleRx
    /\ rxr = IdleRxr
    /\ rx_loaned = [r \in RcbIds |-> 0]
    /\ irxs_packets = 0
    /\ rxd_desc_area = TRUE
    /\ itrq_tx_dma = TRUE
    /\ fr = IdleFr
    /\ rxd_frees = 0
    /\ i40e_rx_pending_cv = 0
    /\ rxw = "none"
    /\ itrq_rxdata = TRUE
    /\ alloc = [pc |-> "ok", q |-> 0, i |-> 0]
    /\ i40e_trqpairs = [q \in TrqIndex |-> TrqAllocated]

\* the TX side of a started ring with nothing sent yet, and the calls of
\* i40e_ring_tx by the threads named
InitTxOf(threads) ==
    /\ i40e_state = {"STARTED"}
    /\ i40e_link_state = "UP"
    /\ qtx_ena = TRUE
    /\ qtx_tail = 0
    /\ itrq_desc_ring = [i \in TxIndex |-> ZeroDesc]
    /\ itrq_desc_wbhead = 0
    /\ itrq_desc_head = 0
    /\ itrq_desc_tail = 0
    /\ itrq_desc_free = TxRingSize
    /\ itrq_tx_blocked = FALSE
    /\ itrq_tcb_work_list = [i \in TxIndex |-> NULL]
    /\ itrq_tcb_free_list = [i \in 1 .. TxFreeListSize |-> i]
    /\ tcbs = [t \in TcbIds |-> ZeroTcb]
    /\ tx = [t \in threads |-> IdleTx]
    /\ rc = IdleRc
    /\ tx_intr = FALSE
    /\ mp_frees = [f \in Frames |-> 0]
    /\ mp_next = 1
    /\ mp_returned = {}
    /\ mac_updates = 0
    /\ tx_last = "none"
    /\ qtx_tail_synced = {}
    /\ mac_blocked = FALSE
    /\ panicked = FALSE

InitTx == InitTxOf(TxThreads)

Init == InitTx /\ InitRx /\ meoi = MeoiIdle

(***************************************************************************)
(* TX control block pool.                                                  *)
(***************************************************************************)
\* i40e_tcb_free: push on the free list (the ASSERT on its size is a no-op)
i40e_tcb_free(list, tcb) == Append(list, tcb)

\* i40e_tcb_alloc: NULL when the list is empty, else the last entry
i40e_tcb_alloc(list) == IF Len(list) = 0 THEN NULL ELSE list[Len(list)]

\* the free list i40e_tcb_alloc leaves behind
TcbPop(list) == IF Len(list) = 0 THEN list ELSE SubSeq(list, 1, Len(list) - 1)

\* ddi_dma_addr_bind_handle returning DDI_DMA_MAPPED on the LSO handle of
\* the block (lso) or on its regular handle
ddi_dma_addr_bind_handle(tcb, lso) ==
    IF lso THEN [tcb EXCEPT !.tcb_lso_bound = TRUE]
    ELSE [tcb EXCEPT !.tcb_dma_bound = TRUE]

\* ddi_dma_unbind_handle on the LSO handle of the block (lso) or on its
\* regular handle; on a handle that is not bound it fails and changes
\* nothing, and its return value is dropped
ddi_dma_unbind_handle(tcb, lso) ==
    IF lso THEN [tcb EXCEPT !.tcb_lso_bound = FALSE]
    ELSE [tcb EXCEPT !.tcb_dma_bound = FALSE]

\* a reset that leaves the type of the block as it was
i40e_tcb_reset_KeepsType(tcb) ==
    LET u == IF tcb.tcb_type = "DMA"
             THEN ddi_dma_unbind_handle(tcb, tcb.tcb_used_lso) ELSE tcb
    IN  [u EXCEPT !.tcb_mp = NULL,
                  !.tcb_bind_info = IF tcb.tcb_type = "DMA" THEN FALSE ELSE @,
                  !.tcb_bind_ncookies = IF tcb.tcb_type = "DMA" THEN 0 ELSE @,
                  !.tcb_used_lso = IF tcb.tcb_type = "DMA" THEN FALSE ELSE @]

\* i40e_tcb_reset of a block whose type is not NONE; a DMA block has the
\* handle unbound that tcb_used_lso names
i40e_tcb_reset(tcb) ==
    LET u == IF tcb.tcb_type = "DMA"
             THEN ddi_dma_unbind_handle(tcb, tcb.tcb_used_lso) ELSE tcb
    IN  [u EXCEPT !.tcb_type = "NONE", !.tcb_mp = NULL,
                  !.tcb_bind_info = IF tcb.tcb_type = "DMA" THEN FALSE ELSE @,
                  !.tcb_bind_ncookies = IF tcb.tcb_type = "DMA" THEN 0 ELSE @,
                  !.tcb_used_lso = IF tcb.tcb_type = "DMA" THEN FALSE ELSE @]

\* freemsg(tcb->tcb_mp) of i40e_tcb_reset, counted on the frame
FreeMsg(frees, mp) ==
    IF mp = NULL THEN frees ELSE [frees EXCEPT ![mp] = @ + 1]

(***************************************************************************)
(* i40e_ring_tx.                                                           *)
(***************************************************************************)
\* an admission test that does not look at the link
TxAdmit_IgnoresLink(state, link) ==
    /\ "STARTED" \in state
    /\ "OVERTEMP" \notin state
    /\ "SUSPENDED" \notin state
    /\ "ERROR" \notin state

\* an admission test that does not look at the error flag
TxAdmit_IgnoresError(state, link) ==
    /\ "STARTED" \in state
    /\ "OVERTEMP" \notin state
    /\ "SUSPENDED" \notin state
    /\ link = "UP"

\* the admission test at the head of i40e_ring_tx
TxAdmit(state, link) ==
    /\ "STARTED" \in state
    /\ "OVERTEMP" \notin state
    /\ "SUSPENDED" \notin state
    /\ "ERROR" \notin state
    /\ link = "UP"

\* number of links with MBLKL > 0
RECURSIVE CountBufs(_)
CountBufs(blks) ==
    IF blks = <<>> THEN 0
    ELSE (IF Head(blks) > 0 THEN 1 ELSE 0) + CountBufs(Tail(blks))

UseLso(r) == r.offload = "lso"

DoCtxDesc(r) == r.offload \in {"lso", "tunnel"}

\* a path selection that binds already at the threshold
DoDmaBind_AtThreshold(r) == UseLso(r) \/ r.mpsize >= TxDmaMin

\* do_dma_bind: LSO, or a frame longer than i40e_tx_dma_min
DoDmaBind(r) == UseLso(r) \/ r.mpsize > TxDmaMin

\* where the txfail label has work to do next
FailPc(r) ==
    IF r.tcb_ctx # NULL THEN "txfail_ctx"
    ELSE IF r.tcb_data # NULL THEN "txfail_data"
    ELSE "latch"

\* entry: admission, i40e_tx_context, the size/count scan of the chain
TxEnter(t) ==
    /\ ~panicked
    /\ UNCHANGED rxvars
    /\ UNCHANGED qtx_tail_synced
    /\ UNCHANGED meoi
    /\ UNCHANGED mp_returned
    /\ UNCHANGED mac_blocked
    /\ tx[t].pc = "idle"
    /\ ~mac_blocked
    /\ mp_next <= MaxFrames
    /\ \E offload \in {"none", "tunnel", "lso", "bad"}, blks \in BlkChains :
         LET mp == mp_next
             r0 == [IdleTx EXCEPT !.mp = mp, !.offload = offload,
                                  !.mpsize = SumSeq(blks),
                                  !.nbufs = CountBufs(blks)]
         IN  /\ mp_next' = mp_next + 1
             /\ IF ~TxAdmit(i40e_state, i40e_link_state) \/ offload = "bad"
                THEN /\ mp_frees' = FreeMsg(mp_frees, mp)
                     /\ tx' = tx
                     /\ tx_last' =
                          IF ~TxAdmit(i40e_state, i40e_link_state)
                          THEN "drop" ELSE "badctx"
                ELSE /\ mp_frees' = mp_frees
                     /\ tx_last' = tx_last
                     /\ tx' = [tx EXCEPT ![t] =
                           [r0 EXCEPT !.pc = IF DoCtxDesc(r0) THEN "ctx"
                                             ELSE "path"]]
    /\ UNCHANGED <<i40e_state, i40e_link_state, qtx_ena, qtx_tail,
                   itrq_desc_ring, itrq_desc_wbhead, itrq_desc_head,
                   itrq_desc_tail, itrq_desc_free, itrq_tx_blocked,
                   itrq_tcb_work_list, itrq_tcb_free_list, tcbs, rc, tx_intr,
                   mac_updates, panicked>>

\* the control block of the context descriptor
TxAllocCtx(t) ==
    /\ ~panicked
    /\ UNCHANGED rxvars
    /\ UNCHANGED qtx_tail_synced
    /\ UNCHANGED meoi
    /\ UNCHANGED mp_returned
    /\ UNCHANGED mac_blocked
    /\ UNCHANGED tx_last
    /\ tx[t].pc = "ctx"
    /\ LET tcb == i40e_tcb_alloc(itrq_tcb_free_list)
       IN  IF tcb = NULL
           THEN /\ tx' = [tx EXCEPT ![t].pc = FailPc(tx[t])]
                /\ UNCHANGED <<itrq_tcb_free_list, tcbs>>
           ELSE /\ itrq_tcb_free_list' = TcbPop(itrq_tcb_free_list)
                /\ tcbs' = [tcbs EXCEPT ![tcb].tcb_type = "DESC"]
                /\ tx' = [tx EXCEPT ![t].pc = "path", ![t].tcb_ctx = tcb,
                                    ![t].needed_desc = @ + 1,
                                    ![t].held = @ \cup {tcb}]
    /\ UNCHANGED <<i40e_state, i40e_link_state, qtx_ena, qtx_tail,
                   itrq_desc_ring, itrq_desc_wbhead, itrq_desc_head,
                   itrq_desc_tail, itrq_desc_free, itrq_tx_blocked,
                   itrq_tcb_work_list, rc, tx_intr, mp_frees, mp_next,
                   mac_updates, panicked>>

\* bind path: the tcb_dma array; copy path: one block, bcopy of every link
TxPath(t) ==
    /\ ~panicked
    /\ UNCHANGED rxvars
    /\ UNCHANGED qtx_tail_synced
    /\ UNCHANGED meoi
    /\ UNCHANGED mp_returned
    /\ UNCHANGED mac_blocked
    /\ UNCHANGED tx_last
    /\ tx[t].pc = "path"
    /\ IF DoDmaBind(tx[t])
       THEN /\ \E ok \in BOOLEAN :
                 tx' = IF ok
                       THEN [tx EXCEPT ![t].pc = "bind",
                                       ![t].tcb_dma_alloc = TRUE]
                       ELSE [tx EXCEPT ![t].pc = FailPc(tx[t])]
            /\ UNCHANGED <<itrq_tcb_free_list, tcbs>>
       ELSE LET tcb == i40e_tcb_alloc(itrq_tcb_free_list)
            IN  IF tcb = NULL
                THEN /\ tx' = [tx EXCEPT ![t].pc = FailPc(tx[t])]
                     /\ UNCHANGED <<itrq_tcb_free_list, tcbs>>
                ELSE /\ itrq_tcb_free_list' = TcbPop(itrq_tcb_free_list)
                     /\ tcbs' = [tcbs EXCEPT ![tcb].tcb_type = "COPY",
                                             ![tcb].tcb_mp = tx[t].mp]
                     /\ tx' = [tx EXCEPT ![t].pc = "gate",
                                         ![t].tcb_data = tcb,
                                         ![t].needed_desc = @ + 1,
                                         ![t].held = @ \cup {tcb},
                                         ![t].dma_synced = TRUE]
    /\ UNCHANGED <<i40e_state, i40e_link_state, qtx_ena, qtx_tail,
                   itrq_desc_ring, itrq_desc_wbhead, itrq_desc_head,
                   itrq_desc_tail, itrq_desc_free, itrq_tx_blocked,
                   itrq_tcb_work_list, rc, tx_intr, mp_frees, mp_next,
                   mac_updates, panicked>>

\* the loop over the links of the chain, one turn for a link with
\* MBLKL > 0 (the others are skipped): one call of i40e_tx_bind_fragment up
\* to its return or its bffail label, and the bookkeeping of the loop;
\* outcome "nobind": ddi_dma_addr_bind_handle failed (ncookies stays 0),
\* "noinfo": the tcb_bind_info array was not allocated, "nodbi": one
\* i40e_dma_bind_info was not allocated, "ok": the fragment is bound
TxBindFragment(t) ==
    /\ ~panicked
    /\ UNCHANGED rxvars
    /\ UNCHANGED qtx_tail_synced
    /\ UNCHANGED meoi
    /\ UNCHANGED mp_returned
    /\ UNCHANGED mac_blocked
    /\ UNCHANGED tx_last
    /\ tx[t].pc = "bind"
    /\ LET tcb == i40e_tcb_alloc(itrq_tcb_free_list)
       IN  IF tcb = NULL
           THEN /\ tx' = [tx EXCEPT ![t].pc = FailPc(tx[t])]
                /\ UNCHANGED <<itrq_tcb_free_list, tcbs>>
           ELSE /\ itrq_tcb_free_list' = TcbPop(itrq_tcb_free_list)
                /\ \E outcome \in {"nobind", "noinfo", "nodbi", "ok"},
                      ncookies \in 1 .. MaxCookies :
                     CASE outcome = "ok" ->
                            /\ tcbs' = [tcbs EXCEPT ![tcb] =
                                 [ddi_dma_addr_bind_handle(@, UseLso(tx[t]))
                                     EXCEPT !.tcb_type = "DMA",
                                           !.tcb_bind_info = TRUE,
                                           !.tcb_bind_ncookies = ncookies,
                                           !.tcb_used_lso = UseLso(tx[t]),
                                           !.tcb_mp =
                                              IF tx[t].tcb_dma = <<>>
                                              THEN tx[t].mp ELSE @]]
                            /\ tx' = [tx EXCEPT ![t] =
                                 [@ EXCEPT !.tcb_dma = Append(@, tcb),
                                           !.needed_desc = @ + ncookies,
                                           !.held = @ \cup {tcb},
                                           !.pc = IF Len(tx[t].tcb_dma) + 1
                                                       = tx[t].nbufs
                                                  THEN "gate" ELSE "bind"]]
                       [] outcome = "nobind" ->
                            /\ ncookies = 1
                            /\ tcbs' = [tcbs EXCEPT ![tcb].tcb_type = "DMA"]
                            /\ tx' = [tx EXCEPT ![t].pc = "bffail",
                                                ![t].bf_tcb = tcb,
                                                ![t].bf_ncookies = 0,
                                                ![t].held = @ \cup {tcb}]
                       [] outcome = "noinfo" ->
                            /\ tcbs' = [tcbs EXCEPT ![tcb] =
                                 [ddi_dma_addr_bind_handle(@, UseLso(tx[t]))
                                     EXCEPT !.tcb_type = "DMA"]]
                            /\ tx' = [tx EXCEPT ![t].pc = "bffail",
                                                ![t].bf_tcb = tcb,
                                                ![t].bf_ncookies = ncookies,
                                                ![t].held = @ \cup {tcb}]
                       [] outcome = "nodbi" ->
                            /\ tcbs' = [tcbs EXCEPT ![tcb] =
                                 [ddi_dma_addr_bind_handle(@, UseLso(tx[t]))
                                     EXCEPT !.tcb_type = "DMA",
                                            !.tcb_bind_info = TRUE]]
                            /\ tx' = [tx EXCEPT ![t].pc = "bffail",
                                                ![t].bf_tcb = tcb,
                                                ![t].bf_ncookies = ncookies,
                                                ![t].held = @ \cup {tcb}]
    /\ UNCHANGED <<i40e_state, i40e_link_state, qtx_ena, qtx_tail,
                   itrq_desc_ring, itrq_desc_wbhead, itrq_desc_head,
                   itrq_desc_tail, itrq_desc_free, itrq_tx_blocked,
                   itrq_tcb_work_list, rc, tx_intr, mp_frees, mp_next,
                   mac_updates, panicked>>

\* bffail: i40e_tcb_reset and i40e_tcb_free of the fragment's block
TxBfFail(t) ==
    /\ ~panicked
    /\ UNCHANGED rxvars
    /\ UNCHANGED qtx_tail_synced
    /\ UNCHANGED meoi
    /\ UNCHANGED mp_returned
    /\ UNCHANGED mac_blocked
    /\ UNCHANGED tx_last
    /\ tx[t].pc = "bffail"
    /\ LET tcb == tx[t].bf_tcb
       IN  /\ tcbs' = [tcbs EXCEPT ![tcb] = i40e_tcb_reset(@)]
           /\ mp_frees' = FreeMsg(mp_frees, tcbs[tcb].tcb_mp)
           /\ itrq_tcb_free_list' = i40e_tcb_free(itrq_tcb_free_list, tcb)
           /\ tx' = [tx EXCEPT ![t].pc = "bffail_post",
                               ![t].held = @ \ {tcb}]
    /\ UNCHANGED <<i40e_state, i40e_link_state, qtx_ena, qtx_tail,
                   itrq_desc_ring, itrq_desc_wbhead, itrq_desc_head,
                   itrq_desc_tail, itrq_desc_free, itrq_tx_blocked,
                   itrq_tcb_work_list, rc, tx_intr, mp_next, mac_updates,
                   panicked>>

\* bffail, after the block is back on the free list: the unbind of the
\* handle the call chose when ncookies is not zero, the stores to
\* tcb_bind_info and tcb_bind_ncookies, then the NULL return to i40e_ring_tx
TxBfPost(t) ==
    /\ ~panicked
    /\ UNCHANGED rxvars
    /\ UNCHANGED qtx_tail_synced
    /\ UNCHANGED meoi
    /\ UNCHANGED mp_returned
    /\ UNCHANGED mac_blocked
    /\ UNCHANGED tx_last
    /\ tx[t].pc = "bffail_post"
    /\ tcbs' = [tcbs EXCEPT ![tx[t].bf_tcb] =
                    [(IF tx[t].bf_ncookies # 0
                      THEN ddi_dma_unbind_handle(@, UseLso(tx[t])) ELSE @)
                        EXCEPT !.tcb_bind_info = FALSE,
                               !.tcb_bind_ncookies = 0]]
    /\ tx' = [tx EXCEPT ![t].pc = FailPc(tx[t]), ![t].bf_tcb = NULL,
                        ![t].bf_ncookies = 0]
    /\ UNCHANGED <<i40e_state, i40e_link_state, qtx_ena, qtx_tail,
                   itrq_desc_ring, itrq_desc_wbhead, itrq_desc_head,
                   itrq_desc_tail, itrq_desc_free, itrq_tx_blocked,
                   itrq_tcb_work_list, itrq_tcb_free_list, rc, tx_intr,
                   mp_frees, mp_next, mac_updates, panicked>>

(***************************************************************************)
(* The critical section of i40e_ring_tx.  A ring is the record             *)
(* [ring, work, tail, free, panic, synced]; synced: no descriptor has been *)
(* written since the descriptor area was last synced for the device.       *)
(***************************************************************************)
\* a DMA or register handle reports a fault (injected on a device that is
\* healthy so far)
FaultChoice ==
    IF TxAdmit(i40e_state, i40e_link_state) THEN BOOLEAN ELSE {FALSE}

\* the admission gate: too few free descriptors
TxGateBlocked(free) == U32Lt(free, TxBlockThresh)

\* the context descriptor and its control block
TxSetCtxDesc(s, tcb) ==
    [s EXCEPT !.free = U32Dec(@),
              !.work[s.tail] = tcb,
              !.synced = FALSE,
              !.ring[s.tail] = [dtype |-> "ctx", eop |-> FALSE, rs |-> FALSE],
              !.tail = i40e_next_desc(s.tail, 1, TxRingSize)]

\* a data descriptor that asks for a report on every descriptor
i40e_tx_set_data_desc_AlwaysRs(s, last_desc) ==
    [s EXCEPT !.free = U32Dec(@),
              !.synced = FALSE,
              !.ring[s.tail] = [dtype |-> "data", eop |-> last_desc,
                                rs |-> TRUE],
              !.tail = i40e_next_desc(s.tail, 1, TxRingSize)]

\* i40e_tx_set_data_desc: one data descriptor at the tail
i40e_tx_set_data_desc(s, last_desc) ==
    [s EXCEPT !.free = U32Dec(@),
              !.synced = FALSE,
              !.ring[s.tail] = [dtype |-> "data", eop |-> last_desc,
                                rs |-> last_desc],
              !.tail = i40e_next_desc(s.tail, 1, TxRingSize)]

\* the loop over the cookies of one bound fragment; tcb_bind_info[c] of a
\* NULL tcb_bind_info is a NULL dereference
RECURSIVE TxCookieDescs(_, _, _, _)
TxCookieDescs(s, tcb, c, lastbuf) ==
    IF c >= tcb.tcb_bind_ncookies THEN s
    ELSE IF ~tcb.tcb_bind_info THEN [s EXCEPT !.panic = TRUE]
    ELSE TxCookieDescs(
             i40e_tx_set_data_desc(s,
                 lastbuf /\ c = tcb.tcb_bind_ncookies - 1),
             tcb, c + 1, lastbuf)

\* the loop over the bound fragments
RECURSIVE TxBindDescs(_, _, _, _, _)
TxBindDescs(s, tcbv, dma, i, nbufs) ==
    IF i > nbufs \/ s.panic THEN s
    ELSE TxBindDescs(
             TxCookieDescs([s EXCEPT !.work[s.tail] = dma[i]],
                           tcbv[dma[i]], 0, i = nbufs),
             tcbv, dma, i + 1, nbufs)

\* the single data descriptor of the copy path
TxCopyDesc(s, tcb) ==
    i40e_tx_set_data_desc([s EXCEPT !.work[s.tail] = tcb], TRUE)

\* all descriptors of one accepted frame
TxDescs(s, tcbv, r) ==
    LET s1 == IF DoCtxDesc(r) THEN TxSetCtxDesc(s, r.tcb_ctx) ELSE s
    IN  IF DoDmaBind(r) THEN TxBindDescs(s1, tcbv, r.tcb_dma, 1, r.nbufs)
        ELSE TxCopyDesc(s1, r.tcb_data)

CurRing == [ring |-> itrq_desc_ring, work |-> itrq_tcb_work_list,
            tail |-> itrq_desc_tail, free |-> itrq_desc_free,
            panic |-> FALSE, synced |-> TRUE]

\* a critical section that leaves out the sync of the descriptor area
TxDescSync_Skip(s) == s

\* I40E_DMA_SYNC(&itrq->itrq_desc_area, DDI_DMA_SYNC_FORDEV)
TxDescSync(s) == [s EXCEPT !.synced = TRUE]

\* what is synced for the device at the write of I40E_QTX_TAIL: the
\* descriptor area, and the copy buffer of call record r
TxTailSynced(s, r) ==
    (IF s.synced THEN {"desc"} ELSE {})
        \cup (IF r.dma_synced THEN {"payload"} ELSE {})

\* from mutex_enter(itrq_tx_lock) to mutex_exit: refuse, or write the
\* descriptors, write the tail register and check the register handle
TxGate(t) ==
    /\ ~panicked
    /\ UNCHANGED rxvars
    /\ UNCHANGED meoi
    /\ UNCHANGED mp_returned
    /\ UNCHANGED mac_blocked
    /\ tx[t].pc = "gate"
    /\ IF TxGateBlocked(itrq_desc_free)
       THEN /\ tx' = [tx EXCEPT ![t].pc = FailPc(tx[t]),
                                ![t].refused = TRUE]
            /\ UNCHANGED <<i40e_state, qtx_tail, itrq_desc_ring,
                           itrq_desc_tail, itrq_desc_free,
                           itrq_tcb_work_list, tx_last, panicked,
                           qtx_tail_synced>>
       ELSE LET s == TxDescSync(TxDescs(CurRing, tcbs, tx[t]))
            IN  IF s.panic
                THEN /\ panicked' = TRUE
                     /\ UNCHANGED <<i40e_state, qtx_tail, itrq_desc_ring,
                                    itrq_desc_tail, itrq_desc_free,
                                    itrq_tcb_work_list, tx, tx_last,
                                    qtx_tail_synced>>
                ELSE /\ itrq_desc_ring' = s.ring
                     /\ itrq_tcb_work_list' = s.work
                     /\ itrq_desc_tail' = s.tail
                     /\ itrq_desc_free' = s.free
                     /\ qtx_tail' = s.tail
                     /\ qtx_tail_synced' = TxTailSynced(s, tx[t])
                     /\ \E fault \in FaultChoice :
                          i40e_state' = IF fault
                                        THEN i40e_state \cup {"ERROR"}
                                        ELSE i40e_state
                     /\ tx' = [tx EXCEPT ![t] = IdleTx]
                     /\ tx_last' = "sent"
                     /\ UNCHANGED panicked
    /\ UNCHANGED <<i40e_link_state, qtx_ena, itrq_desc_wbhead,
                   itrq_desc_head, itrq_tx_blocked, itrq_tcb_free_list, tcbs,
                   rc, tx_intr, mp_frees, mp_next, mac_updates>>

\* txfail: the context block goes back
TxFailCtx(t) ==
    /\ ~panicked
    /\ UNCHANGED rxvars
    /\ UNCHANGED qtx_tail_synced
    /\ UNCHANGED meoi
    /\ UNCHANGED mp_returned
    /\ UNCHANGED mac_blocked
    /\ UNCHANGED tx_last
    /\ tx[t].pc = "txfail_ctx"
    /\ LET tcb == tx[t].tcb_ctx
           r == [tx[t] EXCEPT !.tcb_ctx = NULL, !.held = @ \ {tcb}]
       IN  IF tcbs[tcb].tcb_type = "NONE"
           THEN /\ panicked' = TRUE
                /\ UNCHANGED <<tcbs, itrq_tcb_free_list, tx>>
           ELSE /\ tcbs' = [tcbs EXCEPT ![tcb] = i40e_tcb_reset(@)]
                /\ itrq_tcb_free_list' = i40e_tcb_free(itrq_tcb_free_list, tcb)
                /\ tx' = [tx EXCEPT ![t] = [r EXCEPT !.pc = FailPc(r)]]
                /\ UNCHANGED panicked
    /\ UNCHANGED <<i40e_state, i40e_link_state, qtx_ena, qtx_tail,
                   itrq_desc_ring, itrq_desc_wbhead, itrq_desc_head,
                   itrq_desc_tail, itrq_desc_free, itrq_tx_blocked,
                   itrq_tcb_work_list, rc, tx_intr, mp_frees, mp_next,
                   mac_updates>>

\* txfail: the copy block goes back, the tcb_dma array is freed
TxFailData(t) ==
    /\ ~panicked
    /\ UNCHANGED rxvars
    /\ UNCHANGED qtx_tail_synced
    /\ UNCHANGED meoi
    /\ UNCHANGED mp_returned
    /\ UNCHANGED mac_blocked
    /\ UNCHANGED tx_last
    /\ tx[t].pc = "txfail_data"
    /\ LET tcb == tx[t].tcb_data
           r == [tx[t] EXCEPT !.tcb_data = NULL, !.held = @ \ {tcb}]
       IN  IF tcbs[tcb].tcb_type = "NONE"
           THEN /\ panicked' = TRUE
                /\ UNCHANGED <<tcbs, itrq_tcb_free_list, tx>>
           ELSE /\ tcbs' = [tcbs EXCEPT ![tcb] = i40e_tcb_reset(@)]
                /\ itrq_tcb_free_list' = i40e_tcb_free(itrq_tcb_free_list, tcb)
                /\ tx' = [tx EXCEPT ![t] = [r EXCEPT !.pc = FailPc(r)]]
                /\ UNCHANGED panicked
    /\ UNCHANGED <<i40e_state, i40e_link_state, qtx_ena, qtx_tail,
                   itrq_desc_ring, itrq_desc_wbhead, itrq_desc_head,
                   itrq_desc_tail, itrq_desc_free, itrq_tx_blocked,
                   itrq_tcb_work_list, rc, tx_intr, mp_frees, mp_next,
                   mac_updates>>

\* a txfail that stores B_FALSE
TxFailBlocked_Clear == FALSE

\* the value txfail stores in itrq_tx_blocked
TxFailBlocked == TRUE

\* txfail: the second critical section, itrq_tx_blocked = B_TRUE
TxLatch(t) ==
    /\ ~panicked
    /\ UNCHANGED rxvars
    /\ UNCHANGED qtx_tail_synced
    /\ UNCHANGED meoi
    /\ UNCHANGED mp_returned
    /\ UNCHANGED mac_blocked
    /\ UNCHANGED tx_last
    /\ tx[t].pc = "latch"
    /\ itrq_tx_blocked' = TxFailBlocked
    /\ tx' = [tx EXCEPT ![t].pc = "ret", ![t].notified = FALSE]
    /\ UNCHANGED <<i40e_state, i40e_link_state, qtx_ena, qtx_tail,
                   itrq_desc_ring, itrq_desc_wbhead, itrq_desc_head,
                   itrq_desc_tail, itrq_desc_free, itrq_tcb_work_list,
                   itrq_tcb_free_list, tcbs, rc, tx_intr, mp_frees, mp_next,
                   mac_updates, panicked>>

\* return (mp): the frame is MAC's again; MAC sends nothing more on the
\* ring until mac_tx_ring_update, unless that call has already come
TxReturn(t) ==
    /\ ~panicked
    /\ UNCHANGED rxvars
    /\ UNCHANGED qtx_tail_synced
    /\ UNCHANGED meoi
    /\ mp_returned' = mp_returned \cup {tx[t].mp}
    /\ tx[t].pc = "ret"
    /\ tx' = [tx EXCEPT ![t] = IdleTx]
    /\ tx_last' = "returned"
    /\ mac_blocked' = ~tx[t].notified
    /\ UNCHANGED <<i40e_state, i40e_link_state, qtx_ena, qtx_tail,
                   itrq_desc_ring, itrq_desc_wbhead, itrq_desc_head,
                   itrq_desc_tail, itrq_desc_free, itrq_tx_blocked,
                   itrq_tcb_work_list, itrq_tcb_free_list, tcbs, rc, tx_intr,
                   mp_frees, mp_next, mac_updates, panicked>>

(***************************************************************************)
(* i40e_tx_recycle_ring.                                                   *)
(***************************************************************************)
\* mac_tx_ring_update: counted, and seen by every i40e_ring_tx that has
\* latched the flag and not yet returned
MacTxRingUpdate(txv) ==
    [t \in TxThreads |->
        IF txv[t].pc = "ret" THEN [txv[t] EXCEPT !.notified = TRUE]
        ELSE txv[t]]

\* descriptors a control block on the work list stands for
DescPerTcb(tcb) ==
    IF tcb.tcb_type = "DMA" THEN tcb.tcb_bind_ncookies ELSE 1

\* bzero of n descriptors from index i on
RECURSIVE ZeroDescs(_, _, _)
ZeroDescs(ring, i, n) ==
    IF n = 0 THEN ring
    ELSE ZeroDescs([ring EXCEPT ![i] = ZeroDesc],
                   i40e_next_desc(i, 1, TxRingSize), n - 1)

\* index reached from i after n single steps
RECURSIVE StepDesc(_, _)
StepDesc(i, n) ==
    IF n = 0 THEN i ELSE StepDesc(i40e_next_desc(i, 1, TxRingSize), n - 1)

\* while (toclean != wbhead): w is [toclean, work, ring, count, chain, panic];
\* a NULL work list entry is dereferenced
RECURSIVE RecycleWalk(_, _, _)
RecycleWalk(w, wbhead, tcbv) ==
    IF w.toclean = wbhead THEN w
    ELSE LET tcb == w.work[w.toclean]
         IN  IF tcb = NULL THEN [w EXCEPT !.panic = TRUE]
             ELSE LET n == DescPerTcb(tcbv[tcb])
                  IN  RecycleWalk(
                          [w EXCEPT !.work[w.toclean] = NULL,
                                    !.chain = <<tcb>> \o @,
                                    !.ring = ZeroDescs(@, w.toclean, n),
                                    !.toclean = StepDesc(@, n),
                                    !.count = @ + n],
                          wbhead, tcbv)

\* an unblock test that does not look at the flag
RecycleUnblocks_AnyRing(blocked, free) == U32Lt(TxBlockThresh, free)

\* the unblock test after the reclaim
RecycleUnblocks(blocked, free) == blocked /\ U32Lt(TxBlockThresh, free)

\* from mutex_enter(itrq_tx_lock) to mutex_exit
RecycleLocked ==
    /\ ~panicked
    /\ UNCHANGED rxvars
    /\ UNCHANGED qtx_tail_synced
    /\ UNCHANGED meoi
    /\ UNCHANGED mp_returned
    /\ UNCHANGED tx_last
    /\ rc.pc = "idle"
    /\ tx_intr' = FALSE
    /\ IF itrq_desc_free = TxRingSize
       THEN /\ IF itrq_tx_blocked
               THEN /\ itrq_tx_blocked' = FALSE
                    /\ mac_updates' = mac_updates + 1
                    /\ tx' = MacTxRingUpdate(tx)
               ELSE UNCHANGED <<itrq_tx_blocked, mac_updates, tx>>
            /\ UNCHANGED <<i40e_state, itrq_desc_ring, itrq_desc_head,
                           itrq_desc_free, itrq_tcb_work_list, rc, panicked>>
       ELSE \E fault \in FaultChoice :
              IF fault
              THEN /\ i40e_state' = i40e_state \cup {"ERROR"}
                   /\ UNCHANGED <<itrq_tx_blocked, mac_updates, tx,
                                  itrq_desc_ring, itrq_desc_head,
                                  itrq_desc_free, itrq_tcb_work_list, rc,
                                  panicked>>
              ELSE LET w == RecycleWalk(
                               [toclean |-> itrq_desc_head,
                                work |-> itrq_tcb_work_list,
                                ring |-> itrq_desc_ring, count |-> 0,
                                chain |-> <<>>, panic |-> FALSE],
                               itrq_desc_wbhead, tcbs)
                       free == U32Add(itrq_desc_free, w.count)
                   IN  IF w.panic
                       THEN /\ panicked' = TRUE
                            /\ UNCHANGED <<i40e_state, itrq_tx_blocked,
                                           mac_updates, tx, itrq_desc_ring,
                                           itrq_desc_head, itrq_desc_free,
                                           itrq_tcb_work_list, rc>>
                       ELSE /\ itrq_desc_head' = itrq_desc_wbhead
                            /\ itrq_desc_free' = free
                            /\ itrq_desc_ring' = w.ring
                            /\ itrq_tcb_work_list' = w.work
                            /\ IF RecycleUnblocks(itrq_tx_blocked, free)
                               THEN /\ itrq_tx_blocked' = FALSE
                                    /\ mac_updates' = mac_updates + 1
                                    /\ tx' = MacTxRingUpdate(tx)
                               ELSE UNCHANGED <<itrq_tx_blocked, mac_updates,
                                                tx>>
                            /\ rc' = IF w.chain = <<>> THEN IdleRc
                                     ELSE [pc |-> "clean",
                                           tcbhead |-> w.chain]
                            /\ UNCHANGED <<i40e_state, panicked>>
    /\ mac_blocked' = IF mac_updates' # mac_updates THEN FALSE
                      ELSE mac_blocked
    /\ UNCHANGED <<i40e_link_state, qtx_ena, qtx_tail, itrq_desc_wbhead,
                   itrq_desc_tail, itrq_tcb_free_list, tcbs, mp_frees,
                   mp_next>>

\* one turn of the loop after mutex_exit: i40e_tcb_reset and i40e_tcb_free
RecycleClean ==
    /\ ~panicked
    /\ UNCHANGED rxvars
    /\ UNCHANGED qtx_tail_synced
    /\ UNCHANGED meoi
    /\ UNCHANGED mp_returned
    /\ UNCHANGED mac_blocked
    /\ UNCHANGED tx_last
    /\ rc.pc = "clean"
    /\ LET tcb == Head(rc.tcbhead)
           rest == Tail(rc.tcbhead)
       IN  IF tcbs[tcb].tcb_type = "NONE"
           THEN /\ panicked' = TRUE
                /\ UNCHANGED <<tcbs, mp_frees, itrq_tcb_free_list, rc>>
           ELSE /\ tcbs' = [tcbs EXCEPT ![tcb] = i40e_tcb_reset(@)]
                /\ mp_frees' = FreeMsg(mp_frees, tcbs[tcb].tcb_mp)
                /\ itrq_tcb_free_list' = i40e_tcb_free(itrq_tcb_free_list, tcb)
                /\ rc' = IF rest = <<>> THEN IdleRc
                         ELSE [pc |-> "clean", tcbhead |-> rest]
                /\ UNCHANGED panicked
    /\ UNCHANGED <<i40e_state, i40e_link_state, qtx_ena, qtx_tail,
                   itrq_desc_ring, itrq_desc_wbhead, itrq_desc_head,
                   itrq_desc_tail, itrq_desc_free, itrq_tx_blocked,
                   itrq_tcb_work_list, tx, tx_intr, mp_next, mac_updates>>

(***************************************************************************)
(* i40e_tx_cleanup_ring.                                                   *)
(***************************************************************************)
\* the loop; w is [index, free, work, ring, tcbv, flist, frees, panic]
RECURSIVE CleanupWalk(_)
CleanupWalk(w) ==
    IF ~U32Lt(w.free, TxRingSize) THEN w
    ELSE LET tcb == w.work[w.index]
         IN  IF tcb = NULL \/ w.tcbv[tcb].tcb_type = "NONE"
             THEN [w EXCEPT !.panic = TRUE]
             ELSE CleanupWalk(
                      [w EXCEPT !.work[w.index] = NULL,
                                !.tcbv[tcb] = i40e_tcb_reset(@),
                                !.frees = FreeMsg(@, w.tcbv[tcb].tcb_mp),
                                !.flist = i40e_tcb_free(@, tcb),
                                !.ring[w.index] = ZeroDesc,
                                !.index = i40e_next_desc(@, 1, TxRingSize),
                                !.free = U32Add(@, 1)])

\* called with itrq_tx_lock held once the queue is disabled in hardware
TxCleanupRing ==
    /\ ~panicked
    /\ UNCHANGED rxvars
    /\ UNCHANGED qtx_tail_synced
    /\ UNCHANGED meoi
    /\ UNCHANGED mp_returned
    /\ UNCHANGED mac_blocked
    /\ UNCHANGED tx_last
    /\ ~qtx_ena
    /\ LET w == CleanupWalk([index |-> itrq_desc_head,
                             free |-> itrq_desc_free,
                             work |-> itrq_tcb_work_list,
                             ring |-> itrq_desc_ring, tcbv |-> tcbs,
                             flist |-> itrq_tcb_free_list,
                             frees |-> mp_frees, panic |-> FALSE])
       IN  IF w.panic
           THEN /\ panicked' = TRUE
                /\ UNCHANGED <<itrq_desc_ring, itrq_desc_head, itrq_desc_free,
                               itrq_tcb_work_list, itrq_tcb_free_list, tcbs,
                               mp_frees>>
           ELSE /\ itrq_desc_ring' = w.ring
                /\ itrq_desc_head' = w.index
                /\ itrq_desc_free' = w.free
                /\ itrq_tcb_work_list' = w.work
                /\ itrq_tcb_free_list' = w.flist
                /\ tcbs' = w.tcbv
                /\ mp_frees' = w.frees
                /\ UNCHANGED panicked
    /\ UNCHANGED <<i40e_state, i40e_link_state, qtx_ena, qtx_tail,
                   itrq_desc_wbhead, itrq_desc_tail, itrq_tx_blocked, tx, rc,
                   tx_intr, mp_next, mac_updates>>

(***************************************************************************)
(* The device and the rest of the driver.                                  *)
(***************************************************************************)
\* first descriptor with RS from i up to (excluding) the tail register,
\* or -1; n bounds the walk
RECURSIVE HwNextRs(_, _, _, _)
HwNextRs(ring, i, tail, n) ==
    IF i = tail \/ n = 0 THEN -1
    ELSE IF ring[i].rs THEN i
    ELSE HwNextRs(ring, i40e_next_desc(i, 1, TxRingSize), tail, n - 1)

\* the hardware sends the next frame and writes the head back past its
\* RS descriptor; the completion raises the TX interrupt
HwComplete ==
    /\ ~panicked
    /\ UNCHANGED rxvars
    /\ UNCHANGED qtx_tail_synced
    /\ UNCHANGED meoi
    /\ UNCHANGED mp_returned
    /\ UNCHANGED mac_blocked
    /\ UNCHANGED tx_last
    /\ qtx_ena
    /\ LET k == HwNextRs(itrq_desc_ring, itrq_desc_wbhead, qtx_tail,
                         TxRingSize)
       IN  /\ k # -1
           /\ itrq_desc_wbhead' = i40e_next_desc(k, 1, TxRingSize)
    /\ tx_intr' = TRUE
    /\ UNCHANGED <<i40e_state, i40e_link_state, qtx_ena, qtx_tail,
                   itrq_desc_ring, itrq_desc_head, itrq_desc_tail,
                   itrq_desc_free, itrq_tx_blocked, itrq_tcb_work_list,
                   itrq_tcb_free_list, tcbs, tx, rc, mp_frees, mp_next,
                   mac_updates, panicked>>

\* the stop path: STARTED is cleared and the queue is disabled
EnvStop ==
    /\ ~panicked
    /\ UNCHANGED rxvars
    /\ UNCHANGED qtx_tail_synced
    /\ UNCHANGED meoi
    /\ UNCHANGED mp_returned
    /\ UNCHANGED mac_blocked
    /\ UNCHANGED tx_last
    /\ TxAdmit(i40e_state, i40e_link_state)
    /\ i40e_state' = i40e_state \ {"STARTED"}
    /\ qtx_ena' = FALSE
    /\ UNCHANGED <<i40e_link_state, qtx_tail, itrq_desc_ring,
                   itrq_desc_wbhead, itrq_desc_head, itrq_desc_tail,
                   itrq_desc_free, itrq_tx_blocked, itrq_tcb_work_list,
                   itrq_tcb_free_list, tcbs, tx, rc, tx_intr, mp_frees,
                   mp_next, mac_updates, panicked>>

\* a healthy device overheats, is suspended, or loses its link
EnvDegrade ==
    /\ ~panicked
    /\ UNCHANGED rxvars
    /\ UNCHANGED qtx_tail_synced
    /\ UNCHANGED meoi
    /\ UNCHANGED mp_returned
    /\ UNCHANGED mac_blocked
    /\ UNCHANGED tx_last
    /\ TxAdmit(i40e_state, i40e_link_state)
    /\ \/ /\ \E f \in {"OVERTEMP", "SUSPENDED"} :
               i40e_state' = i40e_state \cup {f}
          /\ UNCHANGED i40e_link_state
       \/ /\ i40e_link_state' = "DOWN"
          /\ UNCHANGED i40e_state
    /\ UNCHANGED <<qtx_ena, qtx_tail, itrq_desc_ring, itrq_desc_wbhead,
                   itrq_desc_head, itrq_desc_tail, itrq_desc_free,
                   itrq_tx_blocked, itrq_tcb_work_list, itrq_tcb_free_list,
                   tcbs, tx, rc, tx_intr, mp_frees, mp_next, mac_updates,
                   panicked>>

TxStep(t) ==
    \/ TxEnter(t)
    \/ TxAllocCtx(t)
    \/ TxPath(t)
    \/ TxBindFragment(t)
    \/ TxBfFail(t)
    \/ TxBfPost(t)
    \/ TxGate(t)
    \/ TxFailCtx(t)
    \/ TxFailData(t)
    \/ TxLatch(t)
    \/ TxReturn(t)

NextTx ==
    \/ \E t \in TxThreads : TxStep(t)
    \/ RecycleLocked
    \/ RecycleClean
    \/ TxCleanupRing
    \/ HwComplete
    \/ EnvStop
    \/ EnvDegrade

SpecTx == Init /\ [][NextTx]_vars

\* two threads of MAC inside i40e_ring_tx on the same ring, which takes
\* itrq_tx_lock and itrq_tcb_lock for that very case
TxPair == {"t1", "t2"}

InitTxPair == InitTxOf(TxPair) /\ InitRx /\ meoi = MeoiIdle

NextTxPair == \E t \in TxPair : TxStep(t)

SpecTxPair == InitTxPair /\ [][NextTxPair]_vars

\* the parser on its own, called once on each of the frames tried
InitMeoi == InitTx /\ InitRx /\ meoi \in MeoiCalls

NextMeoi == MeoiCall

SpecMeoi == InitMeoi /\ [][NextMeoi]_vars

(***************************************************************************)
(* RX control block pool.  A pool is the record [list, free] of            *)
(* rxd_free_list and rxd_rcb_free.                                         *)
(***************************************************************************)
\* i40e_rcb_free stores past the end of rxd_free_list (its ASSERT is a no-op)
RcbFreeOverflow(pool) == pool.free >= RxFreeListSize

\* i40e_rcb_free
i40e_rcb_free(pool, rcb) ==
    [list |-> [pool.list EXCEPT ![pool.free] = rcb], free |-> pool.free + 1]

\* i40e_rcb_alloc: the block it returns, NULL on an empty list
i40e_rcb_alloc(pool) ==
    IF pool.free = 0 THEN NULL ELSE pool.list[pool.free - 1]

\* the pool i40e_rcb_alloc leaves behind
RcbPop(pool) ==
    IF pool.free = 0 THEN pool
    ELSE [list |-> [pool.list EXCEPT ![pool.free - 1] = NULL],
          free |-> pool.free - 1]

(***************************************************************************)
(* i40e_ring_rx.  The call runs with itrq_rx_lock held; one action is the  *)
(* entry, one iteration of the descriptor loop, or the exit.  s is the     *)
(* record [work, pool, rcbs, error, panic]: work list, free pool, control  *)
(* blocks, I40E_ERROR raised, store outside rxd_free_list.                 *)
(***************************************************************************)
\* the state test without the I40E_ERROR case
RxAdmit_IgnoresError(state) ==
    /\ "STARTED" \in state
    /\ "OVERTEMP" \notin state
    /\ "SUSPENDED" \notin state

\* the state test at the head of i40e_ring_rx
RxAdmit(state) ==
    /\ "STARTED" \in state
    /\ "OVERTEMP" \notin state
    /\ "SUSPENDED" \notin state
    /\ "ERROR" \notin state

\* outcomes of a DMA or register handle check: a fault shows up only on a
\* device that has not been marked faulty yet
RxFaultChoice == IF RxAdmit(i40e_state) THEN BOOLEAN ELSE {FALSE}

\* the failure return of i40e_rx_bind after rep_rcb has been taken:
\* i40e_rcb_free(rxd, rcb) with rcb the block of the work list
RxBindFail(s, rcb, fault) ==
    [s |-> [s EXCEPT !.pool = i40e_rcb_free(RcbPop(s.pool), rcb),
                     !.error = s.error \/ fault,
                     !.panic = s.panic \/ RcbFreeOverflow(RcbPop(s.pool))],
     mp |-> NULL]

\* i40e_rx_bind without the reference taken for the loan
i40e_rx_bind_NoRef(s, index, desb, fault) ==
    LET rep_rcb == i40e_rcb_alloc(s.pool)
        rcb     == s.work[index]
    IN  IF rep_rcb = NULL THEN [s |-> s, mp |-> NULL]
        ELSE IF ~s.rcbs[rcb].rcb_mp /\ ~desb
        THEN RxBindFail(s, rcb, FALSE)
        ELSE IF fault
        THEN RxBindFail([s EXCEPT !.rcbs[rcb].rcb_mp = TRUE], rcb, TRUE)
        ELSE [s |-> [s EXCEPT !.pool = RcbPop(s.pool),
                              !.rcbs[rcb].rcb_mp = TRUE,
                              !.work[index] = rep_rcb],
              mp |-> rcb]

\* i40e_rx_bind loaning the block of the work list when there is no
\* replacement for it
i40e_rx_bind_LoansOnEmpty(s, index, desb, fault) ==
    LET rep_rcb == i40e_rcb_alloc(s.pool)
        rcb     == s.work[index]
    IN  IF rep_rcb = NULL
        THEN [s |-> [s EXCEPT !.rcbs[rcb].rcb_ref = @ + 1], mp |-> rcb]
        ELSE IF ~s.rcbs[rcb].rcb_mp /\ ~desb
        THEN RxBindFail(s, rcb, FALSE)
        ELSE IF fault
        THEN RxBindFail([s EXCEPT !.rcbs[rcb].rcb_mp = TRUE], rcb, TRUE)
        ELSE [s |-> [s EXCEPT !.pool = RcbPop(s.pool),
                              !.rcbs[rcb].rcb_mp = TRUE,
                              !.rcbs[rcb].rcb_ref = @ + 1,
                              !.work[index] = rep_rcb],
              mp |-> rcb]

\* i40e_rx_bind; desb: desballoc succeeds, fault: the DMA handle is faulty.
\* mp is the control block whose mblk is loaned, NULL for none.
i40e_rx_bind(s, index, desb, fault) ==
    LET rep_rcb == i40e_rcb_alloc(s.pool)
        rcb     == s.work[index]
    IN  IF rep_rcb = NULL THEN [s |-> s, mp |-> NULL]
        ELSE IF ~s.rcbs[rcb].rcb_mp /\ ~desb
        THEN RxBindFail(s, rcb, FALSE)
        ELSE IF fault
        THEN RxBindFail([s EXCEPT !.rcbs[rcb].rcb_mp = TRUE], rcb, TRUE)
        ELSE [s |-> [s EXCEPT !.pool = RcbPop(s.pool),
                              !.rcbs[rcb].rcb_mp = TRUE,
                              !.rcbs[rcb].rcb_ref = @ + 1,
                              !.work[index] = rep_rcb],
              mp |-> rcb]

\* i40e_rx_copy; ok: the frame was copied into a fresh mblk
i40e_rx_copy(s, fault, allocb) ==
    IF fault THEN [s |-> [s EXCEPT !.error = TRUE], ok |-> FALSE]
    ELSE [s |-> s, ok |-> allocb]

\* the frames of the returned chain that are loaned buffers of block r
RECURSIVE LoansOf(_, _)
LoansOf(chain, r) ==
    IF chain = <<>> THEN 0
    ELSE (IF Head(chain) = r THEN 1 ELSE 0) + LoansOf(Tail(chain), r)

PollChoices == {I40E_POLL_NULL, RxPollBytes}

\* entry of i40e_ring_rx up to the first descriptor load
RxEnter ==
    /\ ~panicked
    /\ UNCHANGED txonly
    /\ UNCHANGED downvars
    /\ UNCHANGED irxs_packets
    /\ rxd_alive
    /\ rx.pc = "idle"
    /\ \E pb \in PollChoices, fault \in RxFaultChoice :
          IF ~RxAdmit(i40e_state)
          THEN UNCHANGED <<i40e_state, rx>>
          ELSE IF fault
          THEN /\ i40e_state' = i40e_state \cup {"ERROR"}
               /\ rx' = rx
          ELSE /\ rx' = [IdleRx EXCEPT !.pc = "loop", !.poll_bytes = pb,
                                       !.cur_head = rxd_desc_next]
               /\ UNCHANGED i40e_state
    /\ UNCHANGED <<i40e_link_state, panicked, rxd_desc_ring, rxd_desc_next,
                   rxd_work_list, rxd_free_list, rxd_rcb_free,
                   rxd_rcb_pending, rxd_shutdown, rxd_alive, i40e_rx_pending,
                   rcbs, qrx_tail, rx_hw_next, rx_hw_count, rxr, rx_loaned>>

\* the work list, pool and control blocks as i40e_ring_rx finds them
RxCur ==
    [work |-> rxd_work_list,
     pool |-> [list |-> rxd_free_list, free |-> rxd_rcb_free],
     rcbs |-> rcbs, error |-> FALSE, panic |-> FALSE]

\* bind-or-copy of one good frame of length plen at index; mp is the block
\* loaned, NULL for a copied frame, got says whether there is a frame at all
RxFrame(s, index, plen, desb, bfault, cfault, allocb) ==
    LET b == IF plen >= RxDmaMin
             THEN i40e_rx_bind(s, index, desb, bfault)
             ELSE [s |-> s, mp |-> NULL]
        c == i40e_rx_copy(b.s, cfault, allocb)
    IN  IF b.mp # NULL THEN [s |-> b.s, got |-> TRUE, mp |-> b.mp]
        ELSE [s |-> c.s, got |-> c.ok, mp |-> NULL]

\* the discard label without the count of the frame
RxAdvance_NoCount(r) ==
    [r EXCEPT !.cur_head = i40e_next_desc(r.cur_head, 1, RxRingSize)]

\* the discard label: re-arm the descriptor, advance, count the frame
RxAdvance(r) ==
    [r EXCEPT !.cur_head = i40e_next_desc(r.cur_head, 1, RxRingSize),
              !.rx_frames = r.rx_frames + 1,
              !.pc = IF r.rx_frames + 1 > RxLimitPerIntr
                     THEN "exit" ELSE "loop"]

\* the quota test with the check taken out
RxOverQuota_Off(r, plen) == FALSE

\* the polling quota test ahead of rx_bytes += plen
RxOverQuota(r, plen) ==
    /\ r.poll_bytes # I40E_POLL_NULL
    /\ r.rx_bytes + plen > r.poll_bytes

\* one iteration of the while loop of i40e_ring_rx
RxLoop ==
    /\ ~panicked
    /\ UNCHANGED txonly
    /\ UNCHANGED downvars
    /\ UNCHANGED irxs_packets
    /\ rx.pc = "loop"
    /\ LET d == rxd_desc_ring[rx.cur_head]
       IN  IF ~d.dd
           THEN /\ rx' = [rx EXCEPT !.pc = "exit"]
                /\ UNCHANGED <<i40e_state, panicked, rxd_desc_ring,
                               rxd_work_list, rxd_free_list, rxd_rcb_free,
                               rcbs>>
           ELSE IF d.err
           THEN /\ rx' = RxAdvance(rx)
                /\ rxd_desc_ring' =
                       [rxd_desc_ring EXCEPT ![rx.cur_head] = ArmedRxDesc]
                /\ UNCHANGED <<i40e_state, panicked, rxd_work_list,
                               rxd_free_list, rxd_rcb_free, rcbs>>
           ELSE IF RxOverQuota(rx, d.plen)
           THEN /\ rx' = [rx EXCEPT !.pc = "exit"]
                /\ UNCHANGED <<i40e_state, panicked, rxd_desc_ring,
                               rxd_work_list, rxd_free_list, rxd_rcb_free,
                               rcbs>>
           ELSE \E desb \in BOOLEAN, bfault \in RxFaultChoice,
                   cfault \in RxFaultChoice, allocb \in BOOLEAN :
                   LET f == RxFrame(RxCur, rx.cur_head, d.plen, desb,
                                    bfault, cfault, allocb)
                   IN  /\ rxd_work_list' = f.s.work
                       /\ rxd_free_list' = f.s.pool.list
                       /\ rxd_rcb_free' = f.s.pool.free
                       /\ rcbs' = f.s.rcbs
                       /\ i40e_state' = IF f.s.error
                                        THEN i40e_state \cup {"ERROR"}
                                        ELSE i40e_state
                       /\ panicked' = f.s.panic
                       /\ rxd_desc_ring' = [rxd_desc_ring EXCEPT
                                               ![rx.cur_head] = ArmedRxDesc]
                       /\ rx' = RxAdvance(
                                  [rx EXCEPT
                                     !.rx_bytes = @ + d.plen,
                                     !.mp_head = IF f.got
                                                 THEN Append(@, f.mp)
                                                 ELSE @])
    /\ UNCHANGED <<i40e_link_state, rxd_desc_next, rxd_rcb_pending,
                   rxd_shutdown, rxd_alive, i40e_rx_pending, qrx_tail,
                   rx_hw_next, rx_hw_count, rxr, rx_loaned>>

\* from the loop exit to the return of the chain to mac; the stack then
\* holds the loaned mblks of the chain
RxExit ==
    /\ ~panicked
    /\ UNCHANGED txonly
    /\ UNCHANGED downvars
    /\ rx.pc = "exit"
    /\ \E sfault \in RxFaultChoice, afault \in RxFaultChoice :
          i40e_state' =
              IF sfault \/ (rx.rx_frames # 0 /\ afault)
              THEN i40e_state \cup {"ERROR"} ELSE i40e_state
    /\ IF rx.rx_frames # 0
       THEN /\ rxd_desc_next' = rx.cur_head
            /\ qrx_tail' = i40e_prev_desc(rx.cur_head, 1, RxRingSize)
            /\ irxs_packets' = irxs_packets + rx.rx_frames
       ELSE UNCHANGED <<rxd_desc_next, qrx_tail, irxs_packets>>
    /\ rx_loaned' = [r \in RcbIds |-> rx_loaned[r] + LoansOf(rx.mp_head, r)]
    /\ rx' = IdleRx
    /\ UNCHANGED <<i40e_link_state, panicked, rxd_desc_ring, rxd_work_list,
                   rxd_free_list, rxd_rcb_free, rxd_rcb_pending,
                   rxd_shutdown, rxd_alive, i40e_rx_pending, rcbs,
                   rx_hw_next, rx_hw_count, rxr>>

(***************************************************************************)
(* i40e_rx_recycle: the free routine of a loaned mblk.                     *)
(***************************************************************************)
\* freemsg of a loaned mblk by the stack: i40e_rx_recycle up to and
\* including i40e_rcb_free
RxRecycleFree(r) ==
    /\ ~panicked
    /\ UNCHANGED txonly
    /\ UNCHANGED downvars
    /\ UNCHANGED irxs_packets
    /\ rxr.pc = "idle"
    /\ rx_loaned[r] > 0
    /\ rx_loaned' = [rx_loaned EXCEPT ![r] = @ - 1]
    /\ IF rcbs[r].rcb_ref = 0
       THEN UNCHANGED <<rcbs, rxd_free_list, rxd_rcb_free, rxr, panicked>>
       ELSE \E desb \in BOOLEAN :
               LET pool == [list |-> rxd_free_list, free |-> rxd_rcb_free]
                   new  == i40e_rcb_free(pool, r)
               IN  /\ rcbs' = [rcbs EXCEPT ![r].rcb_mp = desb]
                   /\ rxd_free_list' = new.list
                   /\ rxd_rcb_free' = new.free
                   /\ panicked' = RcbFreeOverflow(pool)
                   /\ rxr' = [pc |-> "dec", rcb |-> r]
    /\ UNCHANGED <<i40e_state, i40e_link_state, rxd_desc_ring, rxd_desc_next,
                   rxd_work_list, rxd_rcb_pending, rxd_shutdown, rxd_alive,
                   i40e_rx_pending, qrx_tail, rx_hw_next, rx_hw_count, rx>>

\* i40e_rx_recycle from atomic_dec_32_nv to mutex_enter: the last
\* reference frees the mblk and the DMA buffer of the block
RxRecycleDec ==
    /\ ~panicked
    /\ UNCHANGED txonly
    /\ UNCHANGED downvars
    /\ UNCHANGED irxs_packets
    /\ rxr.pc = "dec"
    /\ LET r   == rxr.rcb
           ref == U32Dec(rcbs[r].rcb_ref)
       IN  IF ref = 0
           THEN /\ rcbs' = [rcbs EXCEPT ![r] = [rcb_ref |-> 0,
                                                rcb_mp |-> FALSE,
                                                rcb_dma |-> FALSE]]
                /\ rxr' = [rxr EXCEPT !.pc = "pend"]
           ELSE /\ rcbs' = [rcbs EXCEPT ![r].rcb_ref = ref]
                /\ rxr' = IdleRxr
    /\ UNCHANGED <<i40e_state, i40e_link_state, panicked, rxd_desc_ring,
                   rxd_desc_next, rxd_work_list, rxd_free_list, rxd_rcb_free,
                   rxd_rcb_pending, rxd_shutdown, rxd_alive, i40e_rx_pending,
                   qrx_tail, rx_hw_next, rx_hw_count, rx, rx_loaned>>

\* the locked section without the cv_broadcast
RxRecyclePend_NoBroadcast ==
    /\ ~panicked
    /\ UNCHANGED txonly
    /\ UNCHANGED irxs_packets
    /\ UNCHANGED allocvars
    /\ UNCHANGED itrq_rxdata
    /\ rxr.pc = "pend"
    /\ fr.pc # "rcb"
    /\ rxd_rcb_pending' = U32Dec(rxd_rcb_pending)
    /\ i40e_rx_pending' = U32Dec(i40e_rx_pending)
    /\ IF rxd_shutdown /\ rxd_rcb_pending' = 0
       THEN /\ rxd_alive' = FALSE
            /\ rxd_frees' = rxd_frees + 1
            /\ UNCHANGED <<i40e_rx_pending_cv, rxw>>
       ELSE UNCHANGED <<rxd_alive, rxd_frees, i40e_rx_pending_cv, rxw>>
    /\ rxr' = IdleRxr
    /\ UNCHANGED <<i40e_state, i40e_link_state, panicked, rxd_desc_ring,
                   rxd_desc_next, rxd_work_list, rxd_free_list, rxd_rcb_free,
                   rxd_shutdown, rcbs, qrx_tail, rx_hw_next, rx_hw_count, rx,
                   rx_loaned, rxd_desc_area, itrq_tx_dma, fr>>

\* the locked section freeing the rx data without looking at rxd_shutdown
RxRecyclePend_NoShutdownTest ==
    /\ ~panicked
    /\ UNCHANGED txonly
    /\ UNCHANGED irxs_packets
    /\ UNCHANGED allocvars
    /\ UNCHANGED itrq_rxdata
    /\ rxr.pc = "pend"
    /\ fr.pc # "rcb"
    /\ rxd_rcb_pending' = U32Dec(rxd_rcb_pending)
    /\ i40e_rx_pending' = U32Dec(i40e_rx_pending)
    /\ IF rxd_rcb_pending' = 0
       THEN /\ rxd_alive' = FALSE
            /\ rxd_frees' = rxd_frees + 1
            /\ i40e_rx_pending_cv' = i40e_rx_pending_cv + 1
            /\ rxw' = IF rxw = "waiting" THEN "woken" ELSE rxw
       ELSE UNCHANGED <<rxd_alive, rxd_frees, i40e_rx_pending_cv, rxw>>
    /\ rxr' = IdleRxr
    /\ UNCHANGED <<i40e_state, i40e_link_state, panicked, rxd_desc_ring,
                   rxd_desc_next, rxd_work_list, rxd_free_list, rxd_rcb_free,
                   rxd_shutdown, rcbs, qrx_tail, rx_hw_next, rx_hw_count, rx,
                   rx_loaned, rxd_desc_area, itrq_tx_dma, fr>>

\* i40e_rx_recycle: the section under i40e_rx_pending_lock, entered once
\* i40e_free_rx_dma does not hold the lock
RxRecyclePend ==
    /\ ~panicked
    /\ UNCHANGED txonly
    /\ UNCHANGED irxs_packets
    /\ UNCHANGED allocvars
    /\ UNCHANGED itrq_rxdata
    /\ rxr.pc = "pend"
    /\ fr.pc # "rcb"
    /\ rxd_rcb_pending' = U32Dec(rxd_rcb_pending)
    /\ i40e_rx_pending' = U32Dec(i40e_rx_pending)
    /\ IF rxd_shutdown /\ rxd_rcb_pending' = 0
       THEN /\ rxd_alive' = FALSE
            /\ rxd_frees' = rxd_frees + 1
            /\ i40e_rx_pending_cv' = i40e_rx_pending_cv + 1
            /\ rxw' = IF rxw = "waiting" THEN "woken" ELSE rxw
       ELSE UNCHANGED <<rxd_alive, rxd_frees, i40e_rx_pending_cv, rxw>>
    /\ rxr' = IdleRxr
    /\ UNCHANGED <<i40e_state, i40e_link_state, panicked, rxd_desc_ring,
                   rxd_desc_next, rxd_work_list, rxd_free_list, rxd_rcb_free,
                   rxd_shutdown, rcbs, qrx_tail, rx_hw_next, rx_hw_count, rx,
                   rx_loaned, rxd_desc_area, itrq_tx_dma, fr>>

(***************************************************************************)
(* The receive side of the device.                                         *)
(***************************************************************************)
\* the hardware writes back the next descriptor the driver has given it
RxHwWrite ==
    /\ ~panicked
    /\ UNCHANGED txonly
    /\ UNCHANGED downvars
    /\ UNCHANGED irxs_packets
    /\ "STARTED" \in i40e_state
    /\ rx_hw_next # qrx_tail
    /\ rx_hw_count < MaxRxFrames
    /\ rx_hw_count' = rx_hw_count + 1
    /\ \E err \in BOOLEAN, plen \in 1 .. MaxPlen :
          rxd_desc_ring' = [rxd_desc_ring EXCEPT ![rx_hw_next] =
                               [dd |-> TRUE, err |-> err,
                                plen |-> IF err THEN 0 ELSE plen]]
    /\ rx_hw_next' = i40e_next_desc(rx_hw_next, 1, RxRingSize)
    /\ UNCHANGED <<i40e_state, i40e_link_state, panicked, rxd_desc_next,
                   rxd_work_list, rxd_free_list, rxd_rcb_free,
                   rxd_rcb_pending, rxd_shutdown, rxd_alive, i40e_rx_pending,
                   rcbs, qrx_tail, rx, rxr, rx_loaned>>

NextRx ==
    \/ RxEnter
    \/ RxLoop
    \/ RxExit
    \/ \E r \in RcbIds : RxRecycleFree(r)
    \/ RxRecycleDec
    \/ RxHwWrite
    \/ EnvDegrade

SpecRx == Init /\ [][NextRx]_vars

(***************************************************************************)
(* The receive path after its first loan: the first frame, of threshold    *)
(* length, has been bound and handed to the stack, which still holds it.   *)
(* rx_hw_count counts the frames received from here on.                    *)
(***************************************************************************)
InitLoaned ==
    /\ InitTx
    /\ meoi = MeoiIdle
    /\ rxd_desc_ring = [i \in RxIndex |-> ArmedRxDesc]
    /\ rxd_desc_next = 1
    /\ rxd_work_list = [i \in RxIndex |->
                           IF i = 0 THEN RxRingSize + RxFreeListSize
                           ELSE i + 1]
    /\ rxd_free_list = [i \in 0 .. (RxFreeListSize - 1) |->
                           IF i < RxFreeListSize - 1
                           THEN RxRingSize + i + 1 ELSE NULL]
    /\ rxd_rcb_free = RxFreeListSize - 1
    /\ rxd_rcb_pending = 0
    /\ rxd_shutdown = FALSE
    /\ rxd_alive = TRUE
    /\ i40e_rx_pending = 0
    /\ rcbs = [r \in RcbIds |->
                  [rcb_ref |-> IF r = 1 THEN 2 ELSE 1, rcb_mp |-> TRUE,
                   rcb_dma |-> TRUE]]
    /\ qrx_tail = i40e_prev_desc(1, 1, RxRingSize)
    /\ rx_hw_next = 1
    /\ rx_hw_count = 0
    /\ rx = IdleRx
    /\ rxr = IdleRxr
    /\ rx_loaned = [r \in RcbIds |-> IF r = 1 THEN 1 ELSE 0]
    /\ irxs_packets = 1
    /\ rxd_desc_area = TRUE
    /\ itrq_tx_dma = TRUE
    /\ fr = IdleFr
    /\ rxd_frees = 0
    /\ i40e_rx_pending_cv = 0
    /\ rxw = "none"
    /\ itrq_rxdata = TRUE
    /\ alloc = [pc |-> "ok", q |-> 0, i |-> 0]
    /\ i40e_trqpairs = [q \in TrqIndex |-> TrqAllocated]

\* i40e_ring_rx, i40e_rx_recycle and the hardware on a device that stays
\* started
NextLoaned ==
    \/ RxEnter
    \/ RxLoop
    \/ RxExit
    \/ \E r \in RcbIds : RxRecycleFree(r)
    \/ RxRecycleDec
    \/ RxHwWrite

SpecLoaned == InitLoaned /\ [][NextLoaned]_vars

(***************************************************************************)
(* i40e_free_ring_mem(i40e, B_FALSE), called by the stop routine once      *)
(* STARTED is cleared and no i40e_ring_rx call is running.  The loop of    *)
(* i40e_free_rx_dma holds i40e_rx_pending_lock from its first to its last  *)
(* block, but the reference counts it decrements are also decremented,     *)
(* outside the lock, by i40e_rx_recycle: it is one action per block.       *)
(***************************************************************************)
\* i40e_free_rx_dma freeing every block, loaned or not
FreeRxDmaTakesLast_Always(ref) == TRUE

\* what i40e_free_rx_dma does with a block whose count it brought to ref
FreeRxDmaTakesLast(ref) == ref = 0

\* a teardown that does not count the block it leaves to its loan
FreeRxDmaPending_NoCount(pending) == pending

\* atomic_inc_32 of a pending counter for a block that stays loaned
FreeRxDmaPending(pending) == U32Add(pending, 1)

\* i40e_free_ring_mem up to the mutex_enter of i40e_free_rx_dma
FreeRingMemEnter ==
    /\ ~panicked
    /\ UNCHANGED txonly
    /\ UNCHANGED irxs_packets
    /\ UNCHANGED allocvars
    /\ UNCHANGED itrq_rxdata
    /\ "STARTED" \notin i40e_state
    /\ rx.pc = "idle"
    /\ fr.pc = "idle"
    /\ rxd_alive
    /\ rxd_desc_area' = FALSE
    /\ rxd_desc_ring' = NullArray
    /\ rxd_desc_next' = 0
    /\ fr' = [pc |-> "rcb", i |-> 1]
    /\ UNCHANGED <<i40e_state, i40e_link_state, panicked, rxd_work_list,
                   rxd_free_list, rxd_rcb_free, rxd_rcb_pending,
                   rxd_shutdown, rxd_alive, i40e_rx_pending, rcbs, qrx_tail,
                   rx_hw_next, rx_hw_count, rx, rxr, rx_loaned, itrq_tx_dma,
                   rxd_frees, i40e_rx_pending_cv, rxw>>

\* one iteration of the loop of i40e_free_rx_dma over rxd_rcb_area; the
\* last one is followed by the mutex_exit
FreeRxDmaRcb ==
    /\ ~panicked
    /\ UNCHANGED txonly
    /\ UNCHANGED irxs_packets
    /\ UNCHANGED allocvars
    /\ UNCHANGED itrq_rxdata
    /\ fr.pc = "rcb"
    /\ LET r   == fr.i
           ref == U32Dec(rcbs[r].rcb_ref)
       IN  IF FreeRxDmaTakesLast(ref)
           THEN /\ rcbs' = [rcbs EXCEPT ![r] = [rcb_ref |-> ref,
                                                rcb_mp |-> FALSE,
                                                rcb_dma |-> FALSE]]
                /\ UNCHANGED <<rxd_rcb_pending, i40e_rx_pending>>
           ELSE /\ rcbs' = [rcbs EXCEPT ![r].rcb_ref = ref]
                /\ rxd_rcb_pending' = FreeRxDmaPending(rxd_rcb_pending)
                /\ i40e_rx_pending' = FreeRxDmaPending(i40e_rx_pending)
    /\ fr' = IF fr.i = RxRingSize + RxFreeListSize
             THEN [pc |-> "shut", i |-> 0]
             ELSE [fr EXCEPT !.i = @ + 1]
    /\ UNCHANGED <<i40e_state, i40e_link_state, panicked, rxd_desc_ring,
                   rxd_desc_next, rxd_work_list, rxd_free_list, rxd_rcb_free,
                   rxd_shutdown, rxd_alive, qrx_tail, rx_hw_next,
                   rx_hw_count, rx, rxr, rx_loaned, rxd_desc_area,
                   itrq_tx_dma, rxd_frees, i40e_rx_pending_cv, rxw>>

\* the section of i40e_free_ring_mem under i40e_rx_pending_lock
FreeRingMemShutdown ==
    /\ ~panicked
    /\ UNCHANGED txonly
    /\ UNCHANGED irxs_packets
    /\ UNCHANGED allocvars
    /\ fr.pc = "shut"
    /\ rxd_shutdown' = TRUE
    /\ IF rxd_rcb_pending = 0
       THEN /\ rxd_alive' = FALSE
            /\ rxd_frees' = rxd_frees + 1
            /\ itrq_rxdata' = FALSE
       ELSE UNCHANGED <<rxd_alive, rxd_frees, itrq_rxdata>>
    /\ fr' = [pc |-> "tx", i |-> 0]
    /\ UNCHANGED <<i40e_state, i40e_link_state, panicked, rxd_desc_ring,
                   rxd_desc_next, rxd_work_list, rxd_free_list, rxd_rcb_free,
                   rxd_rcb_pending, i40e_rx_pending, rcbs, qrx_tail,
                   rx_hw_next, rx_hw_count, rx, rxr, rx_loaned,
                   rxd_desc_area, itrq_tx_dma, i40e_rx_pending_cv, rxw>>

\* i40e_free_tx_dma and the return of i40e_free_ring_mem
FreeTxDma ==
    /\ ~panicked
    /\ UNCHANGED rxd_desc_ring
    /\ UNCHANGED irxs_packets
    /\ UNCHANGED allocvars
    /\ UNCHANGED itrq_rxdata
    /\ fr.pc = "tx"
    /\ itrq_tx_dma' = FALSE
    /\ tcbs' = [t \in TcbIds |-> ZeroTcb]
    /\ itrq_tcb_work_list' = NullArray
    /\ itrq_tcb_free_list' = NullArray
    /\ itrq_desc_ring' = NullArray
    /\ fr' = [pc |-> "done", i |-> 0]
    /\ UNCHANGED <<i40e_state, i40e_link_state, panicked, qtx_ena, qtx_tail,
                   itrq_desc_wbhead, itrq_desc_head, itrq_desc_tail,
                   itrq_desc_free, itrq_tx_blocked, tx, rc, tx_intr,
                   mp_frees, mp_next, mac_updates, tx_last, mac_blocked,
                   qtx_tail_synced, meoi, mp_returned>>
    /\ UNCHANGED <<rxd_desc_next, rxd_work_list, rxd_free_list, rxd_rcb_free,
                   rxd_rcb_pending, rxd_shutdown, rxd_alive, i40e_rx_pending,
                   rcbs, qrx_tail, rx_hw_next, rx_hw_count, rx, rxr,
                   rx_loaned, rxd_desc_area, rxd_frees, i40e_rx_pending_cv,
                   rxw>>

\* the thread that stopped the device waits on i40e_rx_pending_cv, under
\* i40e_rx_pending_lock, while i40e_rx_pending is not zero
RxDrainWait ==
    /\ ~panicked
    /\ UNCHANGED txonly
    /\ UNCHANGED irxs_packets
    /\ UNCHANGED allocvars
    /\ UNCHANGED itrq_rxdata
    /\ fr.pc = "done"
    /\ rxw \in {"none", "woken"}
    /\ rxw' = IF i40e_rx_pending # 0 THEN "waiting" ELSE "done"
    /\ UNCHANGED <<i40e_state, i40e_link_state, panicked, rxd_desc_ring,
                   rxd_desc_next, rxd_work_list, rxd_free_list, rxd_rcb_free,
                   rxd_rcb_pending, rxd_shutdown, rxd_alive, i40e_rx_pending,
                   rcbs, qrx_tail, rx_hw_next, rx_hw_count, rx, rxr,
                   rx_loaned, rxd_desc_area, itrq_tx_dma, fr, rxd_frees,
                   i40e_rx_pending_cv>>

NextRxDown ==
    \/ RxEnter
    \/ RxLoop
    \/ RxExit
    \/ \E r \in RcbIds : RxRecycleFree(r)
    \/ RxRecycleDec
    \/ RxRecyclePend
    \/ RxHwWrite
    \/ EnvStop
    \/ FreeRingMemEnter
    \/ FreeRxDmaRcb
    \/ FreeRingMemShutdown
    \/ FreeTxDma
    \/ RxDrainWait

SpecRxDown == Init /\ [][NextRxDown]_vars

(***************************************************************************)
(* i40e_alloc_ring_mem, called by the start routine before the device is   *)
(* started, and the i40e_free_ring_mem(i40e, B_TRUE) it unwinds with.      *)
(* Nothing runs beside it.  t is the record of one queue pair.             *)
(***************************************************************************)
\* i40e_free_rx_data: the VERIFY on rxd_rcb_pending, then the three arrays
\* and the i40e_rx_data_t itself
i40e_free_rx_data(t) ==
    [t |-> [t EXCEPT !.rxd_rcb_area = FALSE, !.rxd_free_list = FALSE,
                     !.rxd_work_list = FALSE, !.rxd = FALSE],
     panic |-> t.rxd_rcb_pending # 0]

\* where i40e_alloc_rx_data can fail
RxDataFailures == {"none", "rxd", "work", "free", "area"}

\* i40e_alloc_rx_data failing at step fail
i40e_alloc_rx_data(t, fail) ==
    IF fail = "rxd" THEN [t |-> t, ok |-> FALSE, panic |-> FALSE]
    ELSE LET a == [t EXCEPT !.rxd = TRUE, !.itrq_rxdata = TRUE,
                            !.rxd_rcb_pending = 0, !.rxd_shutdown = FALSE,
                            !.rxd_desc_area = ZeroDma,
                            !.rcb = [i \in DOMAIN t.rcb |-> ZeroRcb],
                            !.rxd_work_list = fail # "work",
                            !.rxd_free_list = fail \notin {"work", "free"},
                            !.rxd_rcb_area = fail = "none"]
             f == i40e_free_rx_data(a)
         IN  IF fail = "none"
             THEN [t |-> a, ok |-> TRUE, panic |-> FALSE]
             ELSE [t |-> [f.t EXCEPT !.itrq_rxdata = FALSE],
                   ok |-> FALSE, panic |-> f.panic]

\* one control block in the loop of i40e_free_rx_dma: the block it leaves
\* and whether it has been counted as pending
FreeRxDmaBlock(rcb, failed_init) ==
    LET ref == U32Dec(rcb.rcb_ref)
    IN  IF failed_init /\ rcb.rcb_ref = 0
        THEN [rcb |-> rcb, pending |-> 0]
        ELSE IF ref = 0
        THEN [rcb |-> [rcb_ref |-> 0, rcb_mp |-> FALSE,
                       rcb_dma |-> i40e_free_dma_buffer(rcb.rcb_dma).buf],
              pending |-> 0]
        ELSE [rcb |-> [rcb EXCEPT !.rcb_ref = ref], pending |-> 1]

RECURSIVE SumPending(_, _, _)
SumPending(rcb, failed_init, n) ==
    IF n = 0 THEN 0
    ELSE FreeRxDmaBlock(rcb[n - 1], failed_init).pending
             + SumPending(rcb, failed_init, n - 1)

\* i40e_free_rx_dma on the rx data of queue pair t
i40e_free_rx_dma(t, failed_init) ==
    [t EXCEPT !.rxd_desc_area = i40e_free_dma_buffer(@).buf,
              !.rcb = [i \in DOMAIN t.rcb |->
                          FreeRxDmaBlock(t.rcb[i], failed_init).rcb],
              !.rxd_rcb_pending =
                  U32Add(@, SumPending(t.rcb, failed_init, AllocRcbCount))]

\* i40e_free_tx_dma
i40e_free_tx_dma(t) ==
    [t EXCEPT !.tcb = IF t.itrq_tcb_area
                      THEN [i \in DOMAIN t.tcb |->
                               [t.tcb[i] EXCEPT
                                   !.tcb_dma = i40e_free_dma_buffer(@).buf,
                                   !.tcb_dma_handle = FALSE]]
                      ELSE @,
              !.itrq_tcb_area = FALSE,
              !.itrq_tcb_free_list = FALSE,
              !.itrq_tcb_work_list = FALSE,
              !.itrq_desc_area = i40e_free_dma_buffer(@).buf]

\* the goto unwind of i40e_alloc_ring_mem
AllocUnwind == [pc |-> "free_rx", q |-> 0, i |-> 0]

\* i40e_alloc_ring_mem: i40e_alloc_rx_data for queue pair alloc.q
AllocRxData ==
    /\ ~panicked
    /\ UNCHANGED allocrest
    /\ alloc.pc = "rx_data"
    /\ \E fail \in RxDataFailures :
          LET r == i40e_alloc_rx_data(i40e_trqpairs[alloc.q], fail)
          IN  /\ i40e_trqpairs' = [i40e_trqpairs EXCEPT ![alloc.q] = r.t]
              /\ panicked' = r.panic
              /\ alloc' = IF r.ok THEN [alloc EXCEPT !.pc = "rx_desc"]
                          ELSE AllocUnwind

\* i40e_alloc_rx_dma: the descriptor ring
AllocRxDmaDesc ==
    /\ ~panicked
    /\ UNCHANGED allocrest
    /\ UNCHANGED panicked
    /\ alloc.pc = "rx_desc"
    /\ \E fail \in DmaFailures :
          /\ i40e_trqpairs' =
                 [i40e_trqpairs EXCEPT ![alloc.q].rxd_desc_area =
                     i40e_alloc_dma_buffer(@, fail)]
          /\ alloc' = IF fail = "none"
                      THEN [alloc EXCEPT !.pc = "rcb", !.i = 0]
                      ELSE AllocUnwind

\* i40e_alloc_rx_dma: one iteration of the loop over rxd_rcb_area
AllocRxDmaRcb ==
    /\ ~panicked
    /\ UNCHANGED allocrest
    /\ UNCHANGED panicked
    /\ alloc.pc = "rcb"
    /\ \E fail \in DmaFailures, desb \in BOOLEAN :
          LET old == i40e_trqpairs[alloc.q].rcb[alloc.i]
              dma == i40e_alloc_dma_buffer(old.rcb_dma, fail)
          IN  IF fail # "none"
              THEN /\ ~desb
                   /\ i40e_trqpairs' =
                          [i40e_trqpairs EXCEPT
                              ![alloc.q].rcb[alloc.i].rcb_dma = dma]
                   /\ alloc' = AllocUnwind
              ELSE /\ i40e_trqpairs' =
                          [i40e_trqpairs EXCEPT ![alloc.q].rcb[alloc.i] =
                              [rcb_ref |-> 1, rcb_mp |-> desb,
                               rcb_dma |-> dma]]
                   /\ alloc' = IF alloc.i + 1 = AllocRcbCount
                               THEN [alloc EXCEPT !.pc = "tx_head", !.i = 0]
                               ELSE [alloc EXCEPT !.i = @ + 1]

\* where i40e_alloc_tx_dma can fail before its loop; the KM_SLEEP
\* allocation of the free list does not fail
TxHeadFailures == {"none", "desc", "work", "area"}

\* i40e_alloc_tx_dma up to the loop over the control blocks
AllocTxDmaHead ==
    /\ ~panicked
    /\ UNCHANGED allocrest
    /\ UNCHANGED panicked
    /\ alloc.pc = "tx_head"
    /\ \E fail \in TxHeadFailures, dfail \in DmaFailures \ {"none"} :
          LET t == i40e_trqpairs[alloc.q]
              a == [t EXCEPT
                       !.itrq_desc_area =
                           i40e_alloc_dma_buffer(@, IF fail = "desc"
                                                    THEN dfail ELSE "none"),
                       !.itrq_tcb_work_list = fail \notin {"desc", "work"},
                       !.itrq_tcb_free_list = fail \notin {"desc", "work"},
                       !.itrq_tcb_area = fail = "none"]
          IN  /\ fail # "desc" => dfail = "handle"
              /\ i40e_trqpairs' =
                     [i40e_trqpairs EXCEPT ![alloc.q] =
                         IF fail \in {"none", "desc"} THEN a
                         ELSE i40e_free_tx_dma(a)]
              /\ alloc' = IF fail = "none"
                          THEN [alloc EXCEPT !.pc = "tcb", !.i = 0]
                          ELSE AllocUnwind

\* where one iteration of the loop of i40e_alloc_tx_dma can fail
TcbFailures == {"none", "bind_handle", "lso_handle", "dma"}

\* i40e_alloc_tx_dma: one iteration of the loop over itrq_tcb_area, and
\* after the last one the step to the next queue pair or the return
AllocTxDmaTcb ==
    /\ ~panicked
    /\ UNCHANGED allocrest
    /\ UNCHANGED panicked
    /\ alloc.pc = "tcb"
    /\ \E fail \in TcbFailures, dfail \in DmaFailures \ {"none"} :
          LET t == i40e_trqpairs[alloc.q]
              a == [t EXCEPT
                       !.tcb[alloc.i] =
                           [tcb_dma_handle |-> fail # "bind_handle",
                            tcb_lso_dma_handle |->
                                fail \notin {"bind_handle", "lso_handle"},
                            tcb_dma |->
                                IF fail = "none"
                                THEN i40e_alloc_dma_buffer(@.tcb_dma, "none")
                                ELSE IF fail = "dma"
                                THEN i40e_alloc_dma_buffer(@.tcb_dma, dfail)
                                ELSE @.tcb_dma]]
          IN  /\ fail # "dma" => dfail = "handle"
              /\ i40e_trqpairs' =
                     [i40e_trqpairs EXCEPT ![alloc.q] =
                         IF fail = "none" THEN a ELSE i40e_free_tx_dma(a)]
              /\ alloc' =
                     IF fail # "none" THEN AllocUnwind
                     ELSE IF alloc.i + 1 < AllocTcbCount
                     THEN [alloc EXCEPT !.i = @ + 1]
                     ELSE IF alloc.q + 1 < NumTrqpairs
                     THEN [pc |-> "rx_data", q |-> alloc.q + 1, i |-> 0]
                     ELSE [pc |-> "ok", q |-> 0, i |-> 0]

\* i40e_free_ring_mem(i40e, B_TRUE) for queue pair alloc.q: i40e_free_rx_dma
\* on itrq_rxdata, a NULL dereference when the pointer is NULL
UnwindFreeRxDma ==
    /\ ~panicked
    /\ UNCHANGED allocrest
    /\ alloc.pc = "free_rx"
    /\ LET t == i40e_trqpairs[alloc.q]
       IN  IF ~t.itrq_rxdata
           THEN /\ panicked' = TRUE
                /\ UNCHANGED allocvars
           ELSE /\ panicked' = panicked
                /\ i40e_trqpairs' = [i40e_trqpairs EXCEPT ![alloc.q] =
                                         i40e_free_rx_dma(t, TRUE)]
                /\ alloc' = [alloc EXCEPT !.pc = "free_shut"]

\* i40e_free_ring_mem: the section under i40e_rx_pending_lock
UnwindShutdown ==
    /\ ~panicked
    /\ UNCHANGED allocrest
    /\ alloc.pc = "free_shut"
    /\ LET t == [i40e_trqpairs[alloc.q] EXCEPT !.rxd_shutdown = TRUE]
           f == i40e_free_rx_data(t)
       IN  IF t.rxd_rcb_pending = 0
           THEN /\ i40e_trqpairs' =
                       [i40e_trqpairs EXCEPT ![alloc.q] =
                           [f.t EXCEPT !.itrq_rxdata = FALSE]]
                /\ panicked' = f.panic
           ELSE /\ i40e_trqpairs' = [i40e_trqpairs EXCEPT ![alloc.q] = t]
                /\ panicked' = panicked
    /\ alloc' = [alloc EXCEPT !.pc = "free_tx"]

\* i40e_free_ring_mem: i40e_free_tx_dma, then the next queue pair or the
\* return of B_FALSE by i40e_alloc_ring_mem
UnwindFreeTxDma ==
    /\ ~panicked
    /\ UNCHANGED allocrest
    /\ UNCHANGED panicked
    /\ alloc.pc = "free_tx"
    /\ i40e_trqpairs' = [i40e_trqpairs EXCEPT ![alloc.q] =
                             i40e_free_tx_dma(@)]
    /\ alloc' = IF alloc.q + 1 < NumTrqpairs
                THEN [pc |-> "free_rx", q |-> alloc.q + 1, i |-> 0]
                ELSE [pc |-> "failed", q |-> 0, i |-> 0]

\* the state the start routine calls i40e_alloc_ring_mem in: the device is
\* not started and no ring exists
InitAlloc ==
    /\ i40e_state = {}
    /\ i40e_link_state = "UP"
    /\ qtx_ena = FALSE
    /\ qtx_tail = 0
    /\ itrq_desc_ring = NullArray
    /\ itrq_desc_wbhead = 0
    /\ itrq_desc_head = 0
    /\ itrq_desc_tail = 0
    /\ itrq_desc_free = 0
    /\ itrq_tx_blocked = FALSE
    /\ itrq_tcb_work_list = NullArray
    /\ itrq_tcb_free_list = NullArray
    /\ tcbs = [t \in TcbIds |-> ZeroTcb]
    /\ tx = [t \in TxThreads |-> IdleTx]
    /\ rc = IdleRc
    /\ tx_intr = FALSE
    /\ mp_frees = [f \in Frames |-> 0]
    /\ mp_next = 1
    /\ mp_returned = {}
    /\ mac_updates = 0
    /\ tx_last = "none"
    /\ qtx_tail_synced = {}
    /\ meoi = MeoiIdle
    /\ mac_blocked = FALSE
    /\ panicked = FALSE
    /\ rxd_desc_ring = NullArray
    /\ rxd_desc_next = 0
    /\ rxd_work_list = NullArray
    /\ rxd_free_list = NullArray
    /\ rxd_rcb_free = 0
    /\ rxd_rcb_pending = 0
    /\ rxd_shutdown = FALSE
    /\ rxd_alive = FALSE
    /\ i40e_rx_pending = 0
    /\ rcbs = [r \in RcbIds |->
                  [rcb_ref |-> 0, rcb_mp |-> FALSE, rcb_dma |-> FALSE]]
    /\ qrx_tail = 0
    /\ rx_hw_next = 0
    /\ rx_hw_count = 0
    /\ rx = IdleRx
    /\ rxr = IdleRxr
    /\ rx_loaned = [r \in RcbIds |-> 0]
    /\ irxs_packets = 0
    /\ rxd_desc_area = FALSE
    /\ itrq_tx_dma = FALSE
    /\ fr = IdleFr
    /\ rxd_frees = 0
    /\ i40e_rx_pending_cv = 0
    /\ rxw = "none"
    /\ itrq_rxdata = FALSE
    /\ alloc = [pc |-> "rx_data", q |-> 0, i |-> 0]
    /\ i40e_trqpairs = [q \in TrqIndex |-> ZeroTrq]

NextAlloc ==
    \/ AllocRxData
    \/ AllocRxDmaDesc
    \/ AllocRxDmaRcb
    \/ AllocTxDmaHead
    \/ AllocTxDmaTcb
    \/ UnwindFreeRxDma
    \/ UnwindShutdown
    \/ UnwindFreeTxDma

SpecAlloc == InitAlloc /\ [][NextAlloc]_vars

\* a queue pair none of whose allocations is left
TrqReleased(t) ==
    /\ ~t.itrq_rxdata /\ ~t.rxd
    /\ ~t.rxd_work_list /\ ~t.rxd_free_list /\ ~t.rxd_rcb_area
    /\ t.rxd_desc_area = ZeroDma
    /\ \A i \in DOMAIN t.rcb :
          ~t.rcb[i].rcb_mp /\ t.rcb[i].rcb_dma = ZeroDma
    /\ t.itrq_desc_area = ZeroDma
    /\ ~t.itrq_tcb_work_list /\ ~t.itrq_tcb_free_list /\ ~t.itrq_tcb_area
    /\ \A i \in DOMAIN t.tcb :
          /\ ~t.tcb[i].tcb_dma_handle
          /\ ~t.tcb[i].tcb_lso_dma_handle
          /\ t.tcb[i].tcb_dma = ZeroDma

\* C22: whichever allocation step of i40e_alloc_ring_mem fails, for
\* whichever queue pair, the unwinding raises no fault, and when the
\* function has returned false every queue pair is fully released, those
\* whose rx data was never allocated included.
C22_AllocFailureUnwinds ==
    /\ alloc.pc \in {"free_rx", "free_shut", "free_tx", "failed"}
          => ~panicked
    /\ alloc.pc = "failed"
          => \A q \in TrqIndex : TrqReleased(i40e_trqpairs[q])

\* the DMA buffers of the instance, and what the allocator can leave
AllocDmaBuffers ==
    UNION {{i40e_trqpairs[q].rxd_desc_area, i40e_trqpairs[q].itrq_desc_area}
           \cup {i40e_trqpairs[q].rcb[i].rcb_dma :
                     i \in DOMAIN i40e_trqpairs[q].rcb}
           \cup {i40e_trqpairs[q].tcb[i].tcb_dma :
                     i \in DOMAIN i40e_trqpairs[q].tcb} : q \in TrqIndex}
      \cup {i40e_alloc_dma_buffer(ZeroDma, f) : f \in DmaFailures}

\* C23: i40e_free_dma_buffer applied to a zeroed buffer, or a second time
\* to a buffer it has freed, releases nothing, raises no fault and leaves
\* every field null or zero.
C23_FreeDmaBufferIdempotent ==
    /\ i40e_free_dma_buffer(ZeroDma)
          = [buf |-> ZeroDma, released |-> 0, panic |-> FALSE]
    /\ \A d \in AllocDmaBuffers :
          LET once == i40e_free_dma_buffer(d)
              twice == i40e_free_dma_buffer(once.buf)
          IN  /\ ~once.panic
              /\ twice.released = 0
              /\ ~twice.panic
              /\ twice.buf = ZeroDma
              /\ twice.buf = once.buf

\* i40e_free_tx_dma has run a second time on queue pair 0, whose tx
\* descriptor area was bound and then freed by the cleanup of
\* i40e_alloc_tx_dma
C23_Witness ==
    /\ alloc.pc = "free_rx" /\ alloc.q = 1
    /\ i40e_trqpairs[0].tcb[0].tcb_lso_dma_handle
    /\ i40e_trqpairs[0].itrq_desc_area = ZeroDma
    /\ \E d \in AllocDmaBuffers : i40e_free_dma_buffer(d).released = 3

(***************************************************************************)
(* A second call of i40e_free_ring_mem, made after the first one has       *)
(* returned and the rx data is freed with no loan left.  Nothing runs      *)
(* beside it, so the call is one action.  i40e_free_rx_dma starts by       *)
(* reading rxd->rxd_i40e: with itrq_rxdata NULL that is a NULL             *)
(* dereference; with the pointer left behind by i40e_rx_recycle it is a    *)
(* read of freed memory, which panics (a fault, or the VERIFY on the       *)
(* rxd_rcb_area that i40e_free_rx_data set to NULL) or runs on whatever    *)
(* the memory holds by now.                                                *)
(***************************************************************************)
FreeRingMemAgain ==
    /\ ~panicked
    /\ UNCHANGED txonly
    /\ UNCHANGED irxs_packets
    /\ UNCHANGED allocvars
    /\ UNCHANGED itrq_rxdata
    /\ fr.pc = "done"
    /\ rxr.pc = "idle"
    /\ ~rxd_alive
    /\ \A r \in RcbIds : rx_loaned[r] = 0
    /\ IF ~itrq_rxdata
       THEN panicked' = TRUE /\ fr' = fr
       ELSE \/ panicked' = TRUE /\ fr' = fr
            \/ panicked' = panicked /\ fr' = [pc |-> "wild", i |-> 0]
    /\ UNCHANGED <<i40e_state, i40e_link_state, rxd_desc_ring,
                   rxd_desc_next, rxd_work_list, rxd_free_list, rxd_rcb_free,
                   rxd_rcb_pending, rxd_shutdown, rxd_alive, i40e_rx_pending,
                   rcbs, qrx_tail, rx_hw_next, rx_hw_count, rx, rxr,
                   rx_loaned, rxd_desc_area, itrq_tx_dma, rxd_frees,
                   i40e_rx_pending_cv, rxw>>

NextRxDownAgain == NextRxDown \/ FreeRingMemAgain

SpecRxDownAgain == Init /\ [][NextRxDownAgain]_vars

\* the steps of an i40e_ring_tx call that is already running
TxRun(t) ==
    \/ TxAllocCtx(t)
    \/ TxPath(t)
    \/ TxBindFragment(t)
    \/ TxBfFail(t)
    \/ TxBfPost(t)
    \/ TxGate(t)
    \/ TxFailCtx(t)
    \/ TxFailData(t)
    \/ TxLatch(t)
    \/ TxReturn(t)

\* a running call runs to its end, the device completes what is posted, the
\* interrupt it raises runs i40e_tx_recycle_ring, which runs to its end
TxFairness ==
    /\ \A t \in TxThreads : WF_vars(TxRun(t))
    /\ WF_vars(HwComplete)
    /\ WF_vars(tx_intr /\ RecycleLocked)
    /\ WF_vars(RecycleClean)

SpecTxFair == Init /\ [][NextTx]_vars /\ TxFairness

(***************************************************************************)
(* Properties of the transmit path.                                        *)
(***************************************************************************)
\* the device stays started and healthy, and again and again every posted
\* descriptor has been completed and reclaimed
TxDrains ==
    /\ [](TxAdmit(i40e_state, i40e_link_state) /\ ~panicked)
    /\ []<>(itrq_desc_free = TxRingSize /\ rc.pc = "idle" /\ ~tx_intr)

\* C1: whenever i40e_ring_tx is about to return the frame to its caller, a
\* mac_tx_ring_update (which is what clears itrq_tx_blocked) has happened
\* since the latch or eventually happens, provided the device stays up and
\* every posted descriptor keeps being completed and recycled.
C1_ReturnedFrameLeadsToUpdate ==
    TxDrains =>
        \A t \in TxThreads : (tx[t].pc = "ret") ~> (~itrq_tx_blocked)

\* C2 as stated: at the moment i40e_ring_tx returns the frame,
\* itrq_tx_blocked is true.
C2_BlockedAtReturn ==
    \A t \in TxThreads : tx[t].pc = "ret" => itrq_tx_blocked

\* C2: at the moment i40e_ring_tx returns the frame, itrq_tx_blocked is
\* true, or a recycle has cleared it and called mac_tx_ring_update after this
\* call latched it.
C2_BlockedOrNotifiedAtReturn ==
    \A t \in TxThreads :
        tx[t].pc = "ret" => (itrq_tx_blocked \/ tx[t].notified)

\* a call about to return the frame after a concurrent recycle has already
\* cleared the flag it latched
C2_Witness ==
    \E t \in TxThreads :
        tx[t].pc = "ret" /\ ~itrq_tx_blocked /\ tx[t].notified

\* C3: between a failed descriptor admission check and the store of
\* itrq_tx_blocked by the same call, the critical section of
\* i40e_tx_recycle_ring does not run.
C3_CheckAndLatchAtomic ==
    [][(\E t \in TxThreads :
            /\ tx[t].refused
            /\ tx[t].pc \in {"txfail_ctx", "txfail_data", "latch"})
       => ~RecycleLocked]_vars

\* C4: mac_tx_ring_update is called, once, only by a recycle that finds
\* itrq_tx_blocked true and leaves more than the threshold free, and that
\* recycle clears the flag; the flag is cleared in no other way, so every
\* further call needs a new latched block.
C4_UpdateOnlyOnLatchedBlock ==
    [][/\ (mac_updates' # mac_updates) =>
            /\ mac_updates' = mac_updates + 1
            /\ RecycleLocked
            /\ itrq_tx_blocked
            /\ ~itrq_tx_blocked'
            /\ U32Lt(TxBlockThresh, itrq_desc_free')
       /\ (itrq_tx_blocked /\ ~itrq_tx_blocked') =>
            mac_updates' = mac_updates + 1]_vars

\* a recycle has unblocked a ring that was blocked with frames on it
C4_Witness ==
    /\ mac_updates = 1
    /\ ~itrq_tx_blocked
    /\ tx_last = "returned"
    /\ rc.pc = "clean"

\* C5 as stated: when i40e_ring_tx returns the frame, every control block the
\* call took from the free list is back on it.
C5_NothingHeldAtReturn ==
    \A t \in TxThreads : tx[t].pc = "ret" => tx[t].held = {}

\* C6: a frame that arrives while the device is not started, is over
\* temperature, suspended, in error, or has no link is freed exactly once,
\* the call returns null without taking a control block, and head, tail,
\* free count, work list, blocked flag and tail register are unchanged.
C6_AdmissionDrop ==
    [][(/\ mp_next' # mp_next
        /\ \/ "STARTED" \notin i40e_state
           \/ "OVERTEMP" \in i40e_state
           \/ "SUSPENDED" \in i40e_state
           \/ "ERROR" \in i40e_state
           \/ i40e_link_state # "UP")
       => /\ mp_frees[mp_next] = 0
          /\ mp_frees' = [mp_frees EXCEPT ![mp_next] = 1]
          /\ tx' = tx
          /\ tx_last' = "drop"
          /\ UNCHANGED <<itrq_tcb_free_list, tcbs, itrq_desc_ring,
                         itrq_desc_head, itrq_desc_tail, itrq_desc_free,
                         itrq_tcb_work_list, itrq_tx_blocked, qtx_tail,
                         mac_updates>>]_vars

\* a frame was dropped at admission while descriptors of an earlier frame
\* were still on the ring
C6_Witness ==
    /\ tx_last = "drop"
    /\ mp_frees[mp_next - 1] = 1
    /\ itrq_desc_free < TxRingSize
    /\ itrq_tcb_work_list[itrq_desc_head] # NULL

\* sum of the descriptors owned by the control blocks on the work list
RECURSIVE WorkListDescs(_)
WorkListDescs(idx) ==
    IF idx = {} THEN 0
    ELSE LET i == CHOOSE j \in idx : TRUE
             d == IF itrq_tcb_work_list[i] = NULL THEN 0
                  ELSE DescPerTcb(tcbs[itrq_tcb_work_list[i]])
         IN  d + WorkListDescs(idx \ {i})

\* C7 as stated: with the TX lock not held, 0 <= itrq_desc_free <= ring size
\* and ring size - itrq_desc_free is the number of descriptors owned by the
\* control blocks on the work list.
C7_DescAccounting ==
    ~panicked =>
        /\ itrq_desc_free >= 0
        /\ itrq_desc_free <= TxRingSize
        /\ TxRingSize - itrq_desc_free = WorkListDescs(TxIndex)

\* C8 as stated: a call that passes the admission gate finds at least
\* needed_desc free descriptors, and reserving them leaves itrq_desc_free at
\* or above zero.
C8_AdmittedHasRoom ==
    [][\A t \in TxThreads :
          (tx[t].pc = "gate" /\ tx'[t].pc = "idle")
          => /\ tx[t].needed_desc <= itrq_desc_free
             /\ itrq_desc_free' >= 0]_vars

(***************************************************************************)
(* Properties of the receive path.                                         *)
(***************************************************************************)
\* number of ring slots whose work-list entry is r
RcbWorking(r) == Cardinality({i \in RxIndex : rxd_work_list[i] = r})

\* number of live entries of the free list that are r
RcbFree(r) ==
    Cardinality({i \in 0 .. (rxd_rcb_free - 1) : rxd_free_list[i] = r})

\* mblks of r held outside the driver: by the stack, or on the chain the
\* running i40e_ring_rx is about to return
RcbLoans(r) == rx_loaned[r] + LoansOf(rx.mp_head, r)

RECURSIVE SumLoans(_)
SumLoans(S) ==
    IF S = {} THEN 0
    ELSE LET r == CHOOSE x \in S : TRUE
         IN  RcbLoans(r) + SumLoans(S \ {r})

\* C9 as stated: while the ring is started every rx control block is in
\* exactly one of the states Working, Free and Loaned, and
\* working + free + loaned is twice the ring size.
C9_RcbInOneState ==
    ("STARTED" \in i40e_state /\ ~panicked) =>
        /\ \A r \in RcbIds :
              RcbWorking(r) + RcbFree(r)
                  + (IF RcbLoans(r) > 0 THEN 1 ELSE 0) = 1
        /\ RxRingSize + rxd_rcb_free + SumLoans(RcbIds) = 2 * RxRingSize

\* C10 as stated: every RX ring slot has a control block in rxd_work_list
\* and no control block is installed in two slots.
C10_WorkListInjective ==
    ~panicked =>
        /\ \A i \in RxIndex : rxd_work_list[i] # NULL
        /\ \A i, j \in RxIndex :
              rxd_work_list[i] = rxd_work_list[j] => i = j

\* C11 as stated: on every step of the i40e_ring_rx walk the control block
\* whose bus address is written into read.pkt_addr of the descriptor is
\* Working: it is not on the free list and not loaned upstream.
C11_RearmedRcbIsWorking ==
    [][(rx.pc = "loop" /\ rx'.cur_head # rx.cur_head) =>
          \E r \in RcbIds :
              /\ r = rxd_work_list'[rx.cur_head]
              /\ RcbFree(r)' = 0
              /\ RcbLoans(r)' = 0]_vars

\* references of r taken for a loan and not yet dropped by i40e_rx_recycle:
\* the mblks still held outside the driver and the one whose free routine
\* is running and has not reached its atomic decrement
RcbOutstanding(r) ==
    RcbLoans(r) + (IF rxr.pc = "dec" /\ rxr.rcb = r THEN 1 ELSE 0)

\* the reference the driver itself holds on r: one until the loop of
\* i40e_free_rx_dma has passed the block
RcbDriverRef(r) ==
    IF fr.pc \in {"shut", "tx", "done"} \/ (fr.pc = "rcb" /\ r < fr.i)
    THEN 0 ELSE 1

\* C12: while the ring is started the reference count of every rx control
\* block is one plus the number of its outstanding loans, and it is never
\* below zero, whatever the interleaving of i40e_ring_rx, i40e_rx_recycle
\* and the teardown; once the teardown has dropped the driver's reference
\* the count is the number of outstanding loans.
C12_RefIsOnePlusLoans ==
    ~panicked =>
        \A r \in RcbIds :
            /\ "STARTED" \in i40e_state =>
                   rcbs[r].rcb_ref = 1 + RcbOutstanding(r)
            /\ rcbs[r].rcb_ref = RcbDriverRef(r) + RcbOutstanding(r)
            /\ rcbs[r].rcb_ref >= 0

\* a started ring with a block loaned upstream and another loan of a block
\* being released by i40e_rx_recycle
C12_Witness ==
    /\ "STARTED" \in i40e_state
    /\ ~panicked
    /\ rxr.pc = "dec"
    /\ rcbs[rxr.rcb].rcb_ref = 2
    /\ \E r \in RcbIds :
          r # rxr.rcb /\ rx_loaned[r] > 0 /\ rcbs[r].rcb_ref = 2

\* C14: in polled mode the lengths consumed by one call of i40e_ring_rx
\* never add up to more than poll_bytes; a done descriptor that would push
\* the total past the quota is left as it is, the walk stops at it, and the
\* software head the call stores is not past it.
C14_PollQuota ==
    [][/\ rx'.poll_bytes # I40E_POLL_NULL => rx'.rx_bytes <= rx'.poll_bytes
       /\ LET d == rxd_desc_ring[rx.cur_head]
              over == /\ rx.poll_bytes # I40E_POLL_NULL
                      /\ d.dd /\ ~d.err
                      /\ rx.rx_bytes + d.plen > rx.poll_bytes
          IN  /\ (rx.pc = "loop" /\ rx' # rx /\ over) =>
                    /\ rx' = [rx EXCEPT !.pc = "exit"]
                    /\ rxd_desc_ring' = rxd_desc_ring
                    /\ rxd_work_list' = rxd_work_list
              /\ (rx.pc = "exit" /\ rx'.pc = "idle" /\ over) =>
                    /\ rxd_desc_next' = rx.cur_head
                    /\ rxd_desc_ring'[rxd_desc_next'] = d]_vars

\* a polled call that took a frame and has stopped at a done descriptor
\* whose length does not fit the rest of the quota
C14_Witness ==
    /\ rx.pc = "exit"
    /\ rx.poll_bytes # I40E_POLL_NULL
    /\ rx.rx_frames > 0
    /\ rx.rx_bytes > 0
    /\ rxd_desc_ring[rx.cur_head].dd
    /\ ~rxd_desc_ring[rx.cur_head].err
    /\ rx.rx_bytes + rxd_desc_ring[rx.cur_head].plen > rx.poll_bytes

\* C15 as stated: in interrupt mode one call of i40e_ring_rx processes at
\* most i40e_rx_limit_per_intr descriptors.
C15_IntrLimit ==
    (rx.pc # "idle" /\ rx.poll_bytes = I40E_POLL_NULL) =>
        rx.rx_frames <= RxLimitPerIntr

\* C16: the return of a call of i40e_ring_rx that consumed at least one
\* descriptor moves rxd_desc_next forward, modulo the ring size, by exactly
\* the number of descriptors consumed and writes (rxd_desc_next - 1) modulo
\* the ring size to the RX tail register; the return of a call that consumed
\* none leaves both as they were.
C16_HeadAndTailAtExit ==
    [][(rx.pc = "exit" /\ rx'.pc = "idle") =>
          IF rx.rx_frames > 0
          THEN /\ rxd_desc_next' =
                      (rxd_desc_next + rx.rx_frames) % RxRingSize
               /\ qrx_tail' =
                      (rxd_desc_next' + RxRingSize - 1) % RxRingSize
          ELSE /\ rxd_desc_next' = rxd_desc_next
               /\ qrx_tail' = qrx_tail]_vars

\* a call has returned after consuming descriptors, and the tail it wrote
\* is the last index of the ring, behind a software head of zero that it
\* reached by wrapping
C16_Witness ==
    /\ rx.pc = "idle"
    /\ ~panicked
    /\ rx_hw_count >= RxRingSize
    /\ rxd_desc_next = 0
    /\ qrx_tail = RxRingSize - 1
    /\ \E r \in RcbIds : rx_loaned[r] > 0

\* C13 as stated: i40e_rx_recycle decrements the reference of the block; if
\* the decremented count is still positive the block keeps its buffer (it
\* has gone to the free list, from where i40e_ring_rx may already have
\* taken it), and if it is zero the buffer and the mblk are freed and the
\* block is not on the free list.
C13_RecycleFreeListOnlyIfPositive ==
    [][(rxr.pc = "dec" /\ rxr'.pc # "dec") =>
          \E r \in RcbIds :
              /\ r = rxr.rcb
              /\ IF rcbs'[r].rcb_ref > 0
                 THEN rcbs'[r].rcb_dma
                 ELSE /\ ~rcbs'[r].rcb_dma
                      /\ ~rcbs'[r].rcb_mp
                      /\ RcbFree(r)' = 0]_vars

\* the ring state a call of i40e_ring_rx can change is as it was; the free
\* list may differ only by a step of i40e_rx_recycle
RxRingUntouched ==
    /\ rxd_desc_next' = rxd_desc_next
    /\ rxd_work_list' = rxd_work_list
    /\ qrx_tail' = qrx_tail
    /\ irxs_packets' = irxs_packets
    /\ rxd_desc_ring' = rxd_desc_ring \/ rx_hw_next' # rx_hw_next
    /\ \/ rxr' # rxr
       \/ rxd_free_list' = rxd_free_list /\ rxd_rcb_free' = rxd_rcb_free

\* C17: i40e_ring_rx returns NULL and leaves the ring state (software head,
\* work list, free list, tail register, statistics) as it found it when the
\* device is not started, or is over temperature, suspended or in error, and
\* when the descriptor at the software head has no done bit.
C17_NullReturnLeavesRing ==
    [][/\ (/\ rx.pc = "idle"
           /\ \/ "STARTED" \notin i40e_state
              \/ i40e_state \cap {"OVERTEMP", "SUSPENDED", "ERROR"} # {})
          => (rx' = rx /\ RxRingUntouched)
       /\ (/\ rx.pc = "loop"
           /\ rx' # rx
           /\ rx.rx_frames = 0
           /\ ~rxd_desc_ring[rx.cur_head].dd)
          => (rx' = [rx EXCEPT !.pc = "exit"] /\ RxRingUntouched)
       /\ (rx.pc = "exit" /\ rx' # rx /\ rx.rx_frames = 0)
          => (/\ rx.mp_head = <<>>
              /\ rx_loaned' = rx_loaned
              /\ RxRingUntouched)]_vars

\* a call that found no done bit at the software head is about to return,
\* on a ring that earlier calls have moved, with a block loaned upstream
C17_Witness ==
    /\ rx.pc = "exit"
    /\ rx.rx_frames = 0
    /\ rx.cur_head = rxd_desc_next
    /\ ~rxd_desc_ring[rx.cur_head].dd
    /\ irxs_packets > 0
    /\ \E r \in RcbIds : rx_loaned[r] > 0

\* the control blocks with a loan outstanding
RcbsLoaned == {r \in RcbIds : RcbOutstanding(r) > 0}

\* C18: when i40e_free_ring_mem has been through the rx data of a ring
\* that has k >= 1 blocks loaned, the shutdown flag is set, the DMA buffers
\* of the loaned blocks and the rx data are not freed, the pending counters
\* are k, and every block that is not loaned has its DMA buffer and its
\* mblk freed.
C18_TeardownKeepsLoaned ==
    (fr.pc \in {"tx", "done"} /\ ~panicked) =>
        /\ rxd_shutdown
        /\ \A r \in RcbIds :
              IF r \in RcbsLoaned
              THEN rcbs[r].rcb_dma
              ELSE ~rcbs[r].rcb_dma /\ ~rcbs[r].rcb_mp
        /\ (RcbsLoaned # {}) =>
              /\ rxd_alive
              /\ rxd_frees = 0
              /\ rxd_rcb_pending =
                     Cardinality(RcbsLoaned)
                         + (IF rxr.pc = "pend" THEN 1 ELSE 0)
              /\ i40e_rx_pending = rxd_rcb_pending

\* i40e_free_ring_mem has returned with two blocks still loaned upstream
C18_Witness ==
    /\ fr.pc = "done"
    /\ ~panicked
    /\ rxr.pc = "idle"
    /\ Cardinality({r \in RcbIds : rx_loaned[r] > 0}) = 2
    /\ rxd_rcb_pending = 2
    /\ rxd_alive

\* the teardown and every release of a loan have run to their end
RxDownQuiet ==
    /\ fr.pc \in {"tx", "done"}
    /\ rxr.pc = "idle"
    /\ RcbsLoaned = {}

\* C19: under every interleaving of i40e_free_ring_mem and i40e_rx_recycle
\* the rx data of the ring is freed exactly once, by the one of the two that
\* sees rxd_shutdown set and rxd_rcb_pending at zero; it is never freed
\* while a loan is outstanding or a recycle call is still running; and the
\* DMA buffer of every control block is freed exactly once.
C19_RxDataFreedOnce ==
    /\ [](~panicked =>
            /\ rxd_frees <= 1
            /\ rxd_alive <=> rxd_frees = 0
            /\ ~rxd_alive => (RcbsLoaned = {} /\ rxr.pc = "idle")
            /\ RxDownQuiet =>
                  /\ rxd_frees = 1
                  /\ \A r \in RcbIds : ~rcbs[r].rcb_dma)
    /\ [][/\ rxd_frees' # rxd_frees =>
                /\ rxd_frees' = 1
                /\ rxd_shutdown'
                /\ rxd_rcb_pending' = 0
                /\ fr' # fr \/ rxr' # rxr
          /\ \A r \in RcbIds :
                /\ rcbs'[r].rcb_dma => rcbs[r].rcb_dma
                /\ (rcbs[r].rcb_dma /\ ~rcbs'[r].rcb_dma) =>
                      (rcbs[r].rcb_ref = 1 /\ rcbs'[r].rcb_ref = 0)
                /\ rcbs[r].rcb_ref = 0 => rcbs'[r].rcb_ref = 0]_vars

\* the last release of a loan has freed the rx data after the teardown had
\* returned, and every DMA buffer is freed
C19_Witness ==
    /\ fr.pc = "done"
    /\ rxr.pc = "idle"
    /\ ~panicked
    /\ rxd_frees = 1
    /\ i40e_rx_pending_cv = 1
    /\ \A r \in RcbIds : ~rcbs[r].rcb_dma

\* the teardown itself has freed the rx data of a ring that had loaned a
\* block before the device was stopped
C19_WitnessTeardown ==
    /\ fr.pc = "done"
    /\ rxr.pc = "idle"
    /\ ~panicked
    /\ rxd_frees = 1
    /\ i40e_rx_pending_cv = 0
    /\ irxs_packets > 0

(***************************************************************************)
(* The teardown under fair scheduling: the stack frees every mblk it was   *)
(* loaned, and a running i40e_rx_recycle, i40e_free_ring_mem or waiter is  *)
(* not held up for ever.                                                   *)
(***************************************************************************)
RxDownFairness ==
    /\ WF_vars(\E r \in RcbIds : RxRecycleFree(r))
    /\ WF_vars(RxRecycleDec)
    /\ WF_vars(RxRecyclePend)
    /\ WF_vars(FreeRxDmaRcb)
    /\ WF_vars(FreeRingMemShutdown)
    /\ WF_vars(FreeTxDma)
    /\ WF_vars(RxDrainWait)

SpecRxDownFair == Init /\ [][NextRxDown]_vars /\ RxDownFairness

\* C20: once the teardown has set rxd_shutdown with loans outstanding, the
\* release of every loaned frame brings rxd_rcb_pending and i40e_rx_pending
\* to zero, the last release broadcasts on i40e_rx_pending_cv, and the
\* thread that waits for the loans to drain goes on.
C20_PendingDrains ==
    (rxd_shutdown /\ rxd_rcb_pending # 0) ~>
        (/\ rxd_rcb_pending = 0
         /\ i40e_rx_pending = 0
         /\ i40e_rx_pending_cv > 0
         /\ rxw = "done")

\* the waiter has gone on after being woken by the broadcast of the last
\* release
C20_Witness ==
    /\ rxw = "done"
    /\ i40e_rx_pending_cv = 1
    /\ rxd_rcb_pending = 0
    /\ i40e_rx_pending = 0
    /\ rxd_shutdown
    /\ ~rxd_alive

\* the waiter is parked on the condition with loans outstanding
C20_WitnessWaiting ==
    /\ rxw = "waiting"
    /\ rxd_shutdown
    /\ rxd_rcb_pending = 2

\* C21 as stated: a second call of i40e_free_ring_mem, made after a
\* teardown that ended with the rx data freed and no loan outstanding,
\* frees nothing, changes no state and raises no fault.
C21_SecondTeardownNoOp ==
    [][(/\ fr.pc = "done"
        /\ ~rxd_alive
        /\ rxw' = rxw)
       => (/\ ~panicked'
           /\ fr'.pc = "done"
           /\ rxd_frees' = rxd_frees
           /\ rcbs' = rcbs)]_vars

\* what a call of i40e_tx_cleanup_ring makes of the ring as it is
CleanupNow ==
    CleanupWalk([index |-> itrq_desc_head, free |-> itrq_desc_free,
                 work |-> itrq_tcb_work_list, ring |-> itrq_desc_ring,
                 tcbv |-> tcbs, flist |-> itrq_tcb_free_list,
                 frees |-> mp_frees, panic |-> FALSE])

\* C24: called with the queue disabled and no more descriptors counted
\* free than the ring has, i40e_tx_cleanup_ring raises no fault and returns
\* every control block on the work list to the free list, whatever frames
\* are in flight: it ends with itrq_desc_free equal to the ring size, the
\* head on the tail and every work-list entry NULL.
C24_CleanupReturnsAll ==
    (~qtx_ena /\ ~panicked /\ ~U32Lt(TxRingSize, itrq_desc_free))
        => LET w == CleanupNow
           IN  /\ ~w.panic
               /\ w.free = TxRingSize
               /\ w.index = itrq_desc_tail
               /\ \A i \in TxIndex : w.work[i] = NULL
               /\ \A i \in TxIndex :
                     itrq_tcb_work_list[i] # NULL
                         => \E k \in DOMAIN w.flist :
                               w.flist[k] = itrq_tcb_work_list[i]

\* number of single steps from ring index a to ring index b
RingDist(a, b) == (b - a + TxRingSize) % TxRingSize

\* the ring indexes from a up to, and excluding, b
RingRange(a, b) == {i \in TxIndex : RingDist(a, i) < RingDist(a, b)}

\* the write-back head has moved off the software head to a frame boundary
\* not beyond the tail
WbheadOnBoundary ==
    /\ itrq_desc_wbhead # itrq_desc_head
    /\ RingDist(itrq_desc_head, itrq_desc_wbhead)
          <= RingDist(itrq_desc_head, i40e_prev_desc(itrq_desc_tail, 1,
                                                     TxRingSize)) + 1
    /\ itrq_desc_ring[i40e_prev_desc(itrq_desc_wbhead, 1, TxRingSize)].eop

\* what the locked section of i40e_tx_recycle_ring makes of the ring as it is
RecycleNow ==
    RecycleWalk([toclean |-> itrq_desc_head, work |-> itrq_tcb_work_list,
                 ring |-> itrq_desc_ring, count |-> 0, chain |-> <<>>,
                 panic |-> FALSE], itrq_desc_wbhead, tcbs)

\* the control blocks on the work list in a set of ring indexes
WorkListTcbs(idx) ==
    {itrq_tcb_work_list[i] : i \in idx} \ {NULL}

\* C25, the locked section: with the write-back head on a frame boundary
\* between head and tail, i40e_tx_recycle_ring counts exactly the
\* descriptors from the old head up to the write-back head and unlinks
\* exactly the control blocks of that range, each once.
C25_RecycleCounts ==
    (~panicked /\ rc.pc = "idle" /\ WbheadOnBoundary)
        => LET w == RecycleNow
               range == RingRange(itrq_desc_head, itrq_desc_wbhead)
           IN  /\ ~w.panic
               /\ w.toclean = itrq_desc_wbhead
               /\ w.count = RingDist(itrq_desc_head, itrq_desc_wbhead)
               /\ \A i \in range : w.work[i] = NULL
               /\ {w.chain[k] : k \in DOMAIN w.chain} = WorkListTcbs(range)
               /\ Len(w.chain) = Cardinality(WorkListTcbs(range))

\* C25, the steps: the call that reads such a write-back head moves the
\* head to it and adds the count to itrq_desc_free, and after the lock is
\* dropped every unlinked control block is reset and pushed on the free
\* list, the frame it holds being freed for the first and only time.
C25_RecycleSteps ==
    /\ (rc.pc = "idle" /\ rc'.pc = "clean" /\ WbheadOnBoundary)
          => /\ itrq_desc_head' = itrq_desc_wbhead
             /\ itrq_desc_free' =
                   itrq_desc_free
                       + RingDist(itrq_desc_head, itrq_desc_wbhead)
             /\ rc'.tcbhead = RecycleNow.chain
    /\ (rc.pc = "clean" /\ rc' # rc)
          => LET tcb == Head(rc.tcbhead)
             IN  /\ ~panicked'
                 /\ itrq_tcb_free_list' = Append(itrq_tcb_free_list, tcb)
                 /\ tcbs'[tcb].tcb_type = "NONE"
                 /\ tcbs[tcb].tcb_mp # NULL
                       => mp_frees'[tcbs[tcb].tcb_mp] = 1

\* C25: after i40e_tx_recycle_ring has read a write-back head on a frame
\* boundary between head and tail, the head is the write-back head,
\* itrq_desc_free has grown by the number of descriptors from the old head
\* up to it, every control block of that range is back on the free list and
\* every completed frame has been freed exactly once.
C25_RecycleReclaimsRange ==
    [](C25_RecycleCounts) /\ [][C25_RecycleSteps]_vars

\* the cookies of the first m bound fragments of call record r
FrameCookies(r, m) ==
    SumSeq([j \in 1 .. m |-> tcbs[r.tcb_dma[j]].tcb_bind_ncookies])

\* the descriptors the frame of call record r needs
FrameDescs(r) ==
    (IF DoCtxDesc(r) THEN 1 ELSE 0)
        + (IF DoDmaBind(r) THEN FrameCookies(r, r.nbufs) ELSE 1)

\* the k-th descriptor (from 0) of a frame of n descriptors
FrameDesc(r, k, n) ==
    IF DoCtxDesc(r) /\ k = 0
    THEN [dtype |-> "ctx", eop |-> FALSE, rs |-> FALSE]
    ELSE [dtype |-> "data", eop |-> k = n - 1, rs |-> k = n - 1]

\* the descriptor positions of the frame that start a control block, with
\* the block: the context block, then the fragments in chain order
FrameBlocks(r) ==
    LET c == IF DoCtxDesc(r) THEN 1 ELSE 0
    IN  (IF DoCtxDesc(r) THEN {<<0, r.tcb_ctx>>} ELSE {})
          \cup (IF DoDmaBind(r)
                THEN {<<c + FrameCookies(r, i - 1), r.tcb_dma[i]>> :
                          i \in 1 .. r.nbufs}
                ELSE {<<c, r.tcb_data>>})

\* the last of the positions in K that falls on ring slot j counted from
\* tail, or -1
LastOnSlot(K, tail, j) ==
    LET on == {k \in K : (tail + k) % TxRingSize = j}
    IN  IF on = {} THEN -1 ELSE CHOOSE k \in on : \A l \in on : l <= k

C27_TailWriteAfterSync ==
    [][/\ \A t \in TxThreads :
             (tx[t].pc = "gate" /\ tx'[t].pc = "idle")
             => /\ qtx_tail' = itrq_desc_tail'
                /\ "desc" \in qtx_tail_synced'
                /\ ~DoDmaBind(tx[t]) => "payload" \in qtx_tail_synced'
       /\ (qtx_tail' # qtx_tail \/ qtx_tail_synced' # qtx_tail_synced)
             => \E t \in TxThreads :
                   /\ tx[t].pc = "gate" /\ tx'[t].pc = "idle"
                   /\ ~TxGateBlocked(itrq_desc_free)]_vars

\* a copy-path frame has been accepted: its copy buffer and the descriptor
\* area were synced when the tail register was written
C27_Witness ==
    /\ tx_last = "sent"
    /\ qtx_tail_synced = {"desc", "payload"}
    /\ qtx_tail = itrq_desc_tail
    /\ qtx_tail # 0

InitFault ==
    /\ i40e_state = {"STARTED"}
    /\ i40e_link_state = "UP"
    /\ qtx_ena = TRUE
    /\ qtx_tail = (MaxFrames - 1) % TxRingSize
    /\ itrq_desc_ring = [i \in TxIndex |-> ZeroDesc]
    /\ itrq_desc_wbhead = (MaxFrames - 1) % TxRingSize
    /\ itrq_desc_head = (MaxFrames - 1) % TxRingSize
    /\ itrq_desc_tail = (MaxFrames - 1) % TxRingSize
    /\ itrq_desc_free = TxRingSize
    /\ itrq_tx_blocked = FALSE
    /\ itrq_tcb_work_list = [i \in TxIndex |-> NULL]
    /\ itrq_tcb_free_list = [i \in 1 .. TxFreeListSize |-> i]
    /\ tcbs = [t \in TcbIds |-> ZeroTcb]
    /\ tx = [t \in TxThreads |-> IdleTx]
    /\ rc = IdleRc
    /\ tx_intr = FALSE
    /\ mp_frees = [f \in Frames |-> IF f < MaxFrames THEN 1 ELSE 0]
    /\ mp_next = MaxFrames
    /\ mp_returned = {}
    /\ mac_updates = 0
    /\ tx_last = "sent"
    /\ qtx_tail_synced = {"desc", "payload"}
    /\ meoi = MeoiIdle
    /\ mac_blocked = FALSE
    /\ panicked = FALSE
    /\ rxd_desc_ring = [i \in RxIndex |-> ArmedRxDesc]
    /\ rxd_desc_next = (MaxRxFrames - 1) % RxRingSize
    /\ rxd_work_list = [i \in RxIndex |-> i + 1]
    /\ rxd_free_list = [i \in 0 .. (RxFreeListSize - 1) |-> RxRingSize + i + 1]
    /\ rxd_rcb_free = RxFreeListSize
    /\ rxd_rcb_pending = 0
    /\ rxd_shutdown = FALSE
    /\ rxd_alive = TRUE
    /\ i40e_rx_pending = 0
    /\ rcbs = [r \in RcbIds |->
                  [rcb_ref |-> 1, rcb_mp |-> TRUE, rcb_dma |-> TRUE]]
    /\ qrx_tail = i40e_prev_desc((MaxRxFrames - 1) % RxRingSize, 1,
                                 RxRingSize)
    /\ rx_hw_next = (MaxRxFrames - 1) % RxRingSize
    /\ rx_hw_count = MaxRxFrames - 1
    /\ rx = IdleRx
    /\ rxr = IdleRxr
    /\ rx_loaned = [r \in RcbIds |-> 0]
    /\ irxs_packets = MaxRxFrames - 1
    /\ rxd_desc_area = TRUE
    /\ itrq_tx_dma = TRUE
    /\ fr = IdleFr
    /\ rxd_frees = 0
    /\ i40e_rx_pending_cv = 0
    /\ rxw = "none"
    /\ itrq_rxdata = TRUE
    /\ alloc = [pc |-> "ok", q |-> 0, i |-> 0]
    /\ i40e_trqpairs = [q \in TrqIndex |-> TrqAllocated]

\* every step of the two paths that can occur in these runs: with a single
\* frame sent on an empty ring the gate does not refuse, so the txfail
\* step that returns a copy block is never reached
NextFault ==
    \/ \E t \in TxThreads :
          \/ TxEnter(t)
          \/ TxAllocCtx(t)
          \/ TxPath(t)
          \/ TxBindFragment(t)
          \/ TxBfFail(t)
          \/ TxBfPost(t)
          \/ TxGate(t)
          \/ TxFailCtx(t)
          \/ TxLatch(t)
          \/ TxReturn(t)
    \/ RecycleLocked
    \/ RecycleClean
    \/ TxCleanupRing
    \/ HwComplete
    \/ EnvStop
    \/ EnvDegrade
    \/ NextRx

SpecFault == InitFault /\ [][NextFault]_vars

\* C29, the calls: a call of i40e_ring_tx made with ERROR set frees its
\* frame, returns NULL and touches neither the ring nor a control block; a
\* call of i40e_ring_rx made with ERROR set does not get past the
\* admission test, and no step taken while no call is inside the function
\* moves the software head, the work list, the tail register or the frame
\* count.
C29_CallsDrop ==
    "ERROR" \in i40e_state
        => /\ \A t \in TxThreads :
                 (tx[t].pc = "idle" /\ mp_next' # mp_next)
                    => /\ mp_frees' = [mp_frees EXCEPT ![mp_next] = @ + 1]
                       /\ tx_last' = "drop"
                       /\ UNCHANGED <<tx, tcbs, itrq_tcb_free_list,
                                      itrq_tcb_work_list, itrq_desc_ring,
                                      itrq_desc_tail, itrq_desc_free,
                                      qtx_tail>>
           /\ rx.pc = "idle"
                 => /\ rx' = rx
                    /\ RxRingUntouched

\* C29: once a fault check of the data path has set ERROR, no step of the
\* data path clears it, every later i40e_ring_tx frees its frame and
\* returns NULL, and every later i40e_ring_rx returns NULL without
\* consuming a descriptor.
C29_ErrorIsSticky ==
    [][/\ "ERROR" \in i40e_state => "ERROR" \in i40e_state'
       /\ C29_CallsDrop]_vars

\* after a fault check has set ERROR on the started device, with a received
\* frame waiting on the ring, the last frame handed to i40e_ring_tx has been
\* dropped and i40e_ring_rx has been called and has left the descriptor
C29_Witness ==
    /\ "ERROR" \in i40e_state
    /\ "STARTED" \in i40e_state
    /\ i40e_link_state = "UP"
    /\ tx_last = "drop"
    /\ mp_frees[MaxFrames] = 1
    /\ rxd_desc_ring[rxd_desc_next].dd
    /\ rx.pc = "idle"
    /\ rxd_alive

\* the ethernet type of the headers h, behind a VLAN tag when there is one
MeoiEther(h) == IF h.ether = "VLAN" THEN h.vether ELSE h.ether

\* the ethernet type of h is neither IP nor IPv6
MeoiNotIp(h) == MeoiEther(h) \notin {"IP", "IPV6"}

\* h is IPv4 with a header length field outside [5,15]
MeoiBadIhl(h) == MeoiEther(h) = "IP" /\ h.ihl \notin 5..15

\* h is TCP over IP or IPv6 with a data offset outside [5,15]
MeoiBadDoff(h) ==
    /\ MeoiEther(h) \in {"IP", "IPV6"}
    /\ ~MeoiBadIhl(h)
    /\ h.proto = "TCP"
    /\ h.doff \notin 5..15

\* the headers behind the VXLAN header of the call c do not give an inner
\* L2, L3 and L4
MeoiInnerNotFull(c) ==
    /\ c.ttype = "VXLAN"
    /\ \/ MeoiNotIp(c.inner)
       \/ MeoiBadIhl(c.inner)
       \/ MeoiBadDoff(c.inner)
       \/ c.inner.proto \notin {"TCP", "UDP", "SCTP"}

\* C30: a finished call of mac_ether_offload_info has returned -1 for every
\* frame whose ethernet type, behind an optional VLAN tag, is neither IP nor
\* IPv6, whose IPv4 header length field is outside [5,15], whose TCP data
\* offset is outside [5,15], or whose VXLAN inner headers do not give a full
\* inner L2, L3 and L4.
C30_ParserReportsFailure ==
    (/\ meoi.pc = "done"
     /\ \/ MeoiNotIp(meoi.outer)
        \/ MeoiBadIhl(meoi.outer)
        \/ MeoiBadDoff(meoi.outer)
        \/ MeoiInnerNotFull(meoi))
        => meoi.ret = -1

\* a step of the loop of i40e_ring_rx on a good frame at or above the copy
\* threshold, within the quota, taken with the free list empty
RxFallbackStep ==
    /\ rx.pc = "loop"
    /\ rx' # rx
    /\ rxd_desc_ring[rx.cur_head].dd
    /\ ~rxd_desc_ring[rx.cur_head].err
    /\ rxd_desc_ring[rx.cur_head].plen >= RxDmaMin
    /\ ~(/\ rx.poll_bytes # I40E_POLL_NULL
         /\ rx.rx_bytes + rxd_desc_ring[rx.cur_head].plen > rx.poll_bytes)
    /\ rxd_rcb_free = 0

\* what the fallback leaves alone: the work list and every control block
\* (reference counts included), the empty free list, and the descriptor
\* armed again, whose buffer is the one of the unchanged work list entry
RxFallbackKeeps ==
    /\ rxd_work_list' = rxd_work_list
    /\ rcbs' = rcbs
    /\ rxd_rcb_free' = 0
    /\ rxd_free_list' = rxd_free_list
    /\ rxd_desc_ring' = [rxd_desc_ring EXCEPT ![rx.cur_head] = ArmedRxDesc]
    /\ rx'.cur_head = i40e_next_desc(rx.cur_head, 1, RxRingSize)

\* C31 as stated: with the free list empty a frame at or above the RX copy
\* threshold is still delivered, as a copy, and the work list entry, its
\* reference count, the free list count of zero and the buffer of the
\* re-armed descriptor are unchanged.
C31_FallbackDelivers ==
    [][RxFallbackStep
          => /\ rx'.mp_head = Append(rx.mp_head, NULL)
             /\ RxFallbackKeeps]_vars

\* C31 amended: with the free list empty a frame at or above the RX copy
\* threshold is never loaned: it is delivered as a copy or, when i40e_rx_copy
\* fails, not at all, and it is not delivered when the copy raised
\* I40E_ERROR; the work list, the reference counts, the free list and the
\* buffer of the re-armed descriptor do not change either way.
C31_FallbackCopiesOrDrops ==
    [][RxFallbackStep
          => /\ rx'.mp_head \in {Append(rx.mp_head, NULL), rx.mp_head}
             /\ ("ERROR" \in i40e_state' /\ "ERROR" \notin i40e_state)
                   => rx'.mp_head = rx.mp_head
             /\ RxFallbackKeeps]_vars

\* a call has delivered its first frame, of threshold length, as a copy
\* while every block of the free list was out on loan
C31_Witness ==
    /\ rx.pc \in {"loop", "exit"}
    /\ rx.rx_frames = 1
    /\ rx.rx_bytes >= RxDmaMin
    /\ rx.mp_head = <<NULL>>
    /\ rxd_rcb_free = 0
    /\ rxr.pc = "idle"
    /\ \A r \in RcbIds : rx_loaned[r] = IF rcbs[r].rcb_ref = 2 THEN 1 ELSE 0
    /\ Cardinality({r \in RcbIds : rx_loaned[r] = 1}) = RxFreeListSize

\* a step of the loop of i40e_ring_rx on a done descriptor whose error bits
\* meet I40E_RX_ERR_BITS
RxErrorStep ==
    /\ rx.pc = "loop"
    /\ rx' # rx
    /\ rxd_desc_ring[rx.cur_head].dd
    /\ rxd_desc_ring[rx.cur_head].err

\* C32: a done descriptor with a fatal error bit gives no frame and no bytes
\* but is consumed: the descriptor is armed again with the buffer of the
\* unchanged work list entry, the head moves on by one and rx_frames grows
\* by one.
C32_ErrorFrameConsumed ==
    [][RxErrorStep
          => /\ rx'.mp_head = rx.mp_head
             /\ rx'.rx_bytes = rx.rx_bytes
             /\ rxd_desc_ring' =
                    [rxd_desc_ring EXCEPT ![rx.cur_head] = ArmedRxDesc]
             /\ rxd_work_list' = rxd_work_list
             /\ rcbs' = rcbs
             /\ UNCHANGED <<rxd_free_list, rxd_rcb_free>>
             /\ rx'.cur_head = i40e_next_desc(rx.cur_head, 1, RxRingSize)
             /\ rx'.rx_frames = rx.rx_frames + 1]_vars

\* a call has consumed one descriptor, an errored one, and armed it again:
\* one frame counted, no bytes and no frame in the chain
C32_Witness ==
    /\ rx.pc \in {"loop", "exit"}
    /\ rx.rx_frames = 1
    /\ rx.rx_bytes = 0
    /\ rx.mp_head = <<>>
    /\ rx.cur_head = i40e_next_desc(rxd_desc_next, 1, RxRingSize)
    /\ rxd_desc_ring[rxd_desc_next] = ArmedRxDesc

\* a step of the loop of i40e_ring_rx in which i40e_rx_bind has loaned the
\* block r of the work list upstream
RxBindStep(r) ==
    /\ rx.pc = "loop"
    /\ rx' # rx
    /\ r # NULL
    /\ rx'.mp_head = Append(rx.mp_head, r)

\* the step of i40e_rx_recycle on block r that ends with the atomic decrement
RxRecycleDecStep(r) ==
    /\ rxr.pc = "dec"
    /\ rxr.rcb = r
    /\ rxr'.pc # "dec"

\* C33: while the ring is started a loan and its release are a round trip on
\* the pool: a successful bind takes one block off the free list and raises
\* the count of the loaned block from 1 to 2; the i40e_rx_recycle of the loan
\* puts the block on top of the free list, where i40e_rcb_alloc finds it,
\* and its decrement leaves the count at 1.
C33_LoanReleaseRoundTrip ==
    [][\A r \in RcbIds :
          "STARTED" \in i40e_state =>
              /\ RxBindStep(r) =>
                    /\ rxd_rcb_free' = rxd_rcb_free - 1
                    /\ rcbs[r].rcb_ref = 1
                    /\ rcbs'[r].rcb_ref = 2
              /\ (rxr.pc = "idle" /\ rxr'.pc = "dec" /\ rxr'.rcb = r) =>
                    /\ rxd_rcb_free' = rxd_rcb_free + 1
                    /\ rxd_free_list'[rxd_rcb_free] = r
              /\ RxRecycleDecStep(r) => rcbs'[r].rcb_ref = 1]_vars

\* the DMA buffers i40e_alloc_ring_mem is about to call
\* i40e_alloc_dma_buffer on
AllocNextDma ==
    LET t == i40e_trqpairs[alloc.q]
    IN  IF alloc.pc = "rx_desc" THEN {t.rxd_desc_area}
        ELSE IF alloc.pc = "rcb" THEN {t.rcb[alloc.i].rcb_dma}
        ELSE IF alloc.pc = "tx_head" THEN {t.itrq_desc_area}
        ELSE IF alloc.pc = "tcb" THEN {t.tcb[alloc.i].tcb_dma}
        ELSE {}

\* C34, the call: whichever step of i40e_alloc_dma_buffer fails on a buffer
\* the allocator is called on, the call releases as many DDI resources as it
\* has acquired and leaves the buffer with null handles, null addresses and
\* zero sizes, and i40e_free_dma_buffer on that buffer releases nothing and
\* changes nothing.
C34_FailedCallLeavesNothing ==
    \A d \in AllocNextDma : \A f \in {"handle", "mem", "bind"} :
        LET b == i40e_alloc_dma_buffer(d, f)
        IN  /\ DmaAllocReleased(d, f) = DmaAcquired(f)
            /\ ~i40e_free_dma_buffer(DmaAtFailure(d, f)).panic
            /\ b = ZeroDma
            /\ i40e_free_dma_buffer(b)
                  = [buf |-> ZeroDma, released |-> 0, panic |-> FALSE]

\* C34, the callers: when the allocation of the rx descriptor ring or of the
\* buffer of an rx control block fails, the buffer in the queue pair is null
\* and zero as the unwinding starts.
C34_FailedStepLeavesNothing ==
    /\ (alloc.pc = "rx_desc" /\ alloc'.pc = "free_rx")
          => i40e_trqpairs'[alloc.q].rxd_desc_area = ZeroDma
    /\ (alloc.pc = "rcb" /\ alloc'.pc = "free_rx")
          => i40e_trqpairs'[alloc.q].rcb[alloc.i].rcb_dma = ZeroDma

\* C34: a failure of i40e_alloc_dma_buffer at any of its steps releases what
\* the earlier steps acquired and leaves the buffer null and zero, so that
\* nothing is leaked and a later i40e_free_dma_buffer is a no-op.
C34_AllocDmaRollsBack ==
    [](C34_FailedCallLeavesNothing) /\ [][C34_FailedStepLeavesNothing]_vars

\* an allocation of the buffer of an rx control block has failed after the
\* descriptor ring and an earlier control block got theirs, and the unwinding
\* is about to start
C34_Witness ==
    /\ alloc = AllocUnwind
    /\ \E q \in TrqIndex, i \in 1 .. (AllocRcbCount - 1) :
          /\ i40e_trqpairs[q].rxd_desc_area.dmab_dma_handle
          /\ i40e_trqpairs[q].rcb[i - 1].rcb_dma.dmab_dma_handle
          /\ i40e_trqpairs[q].rcb[i - 1].rcb_ref = 1
          /\ i40e_trqpairs[q].rcb[i].rcb_dma = ZeroDma
          /\ i40e_trqpairs[q].rcb[i].rcb_ref = 0
          /\ ~i40e_trqpairs[q].itrq_tcb_area

\* the types of a control block that is in use
TcbTypesInUse == {"COPY", "DMA", "DESC"}

\* the control blocks i40e_tcb_reset is about to be called on: those of the
\* failure paths of i40e_ring_tx, the chain i40e_tx_recycle_ring has taken
\* off the work list, and the work list, which i40e_tx_cleanup_ring walks
TcbsToReset ==
    {tx[t].tcb_ctx : t \in {u \in TxThreads : tx[u].pc = "txfail_ctx"}}
        \cup {tx[t].tcb_data : t \in {u \in TxThreads :
                                        tx[u].pc = "txfail_data"}}
        \cup {tx[t].bf_tcb : t \in {u \in TxThreads : tx[u].pc = "bffail"}}
        \cup {rc.tcbhead[i] : i \in DOMAIN rc.tcbhead}
        \cup {itrq_tcb_work_list[i] :
                i \in {j \in DOMAIN itrq_tcb_work_list :
                         itrq_tcb_work_list[j] # NULL}}

\* C35: i40e_tcb_reset is never called on a control block of type NONE,
\* under any interleaving of i40e_ring_tx with its failure paths,
\* i40e_tx_recycle_ring and i40e_tx_cleanup_ring: every block on the free
\* list has type NONE, and every block on the work list or being torn down
\* has type COPY, DMA or DESC.
C35_ResetNeverSeesNone ==
    /\ \A i \in DOMAIN itrq_tcb_free_list :
          tcbs[itrq_tcb_free_list[i]].tcb_type = "NONE"
    /\ \A tcb \in TcbsToReset :
          tcb # NULL /\ tcbs[tcb].tcb_type \in TcbTypesInUse

\* a block of each kind of use is about to be reset: a context block on the
\* txfail path, and bound fragments on the chain of i40e_tx_recycle_ring
\* with a copy block still on the work list
C35_Witness ==
    /\ \E t \in TxThreads :
          /\ tx[t].pc = "txfail_ctx"
          /\ tcbs[tx[t].tcb_ctx].tcb_type = "DESC"
    /\ rc.pc = "clean"
    /\ tcbs[Head(rc.tcbhead)].tcb_type \in {"DMA", "COPY"}
    /\ Len(itrq_tcb_free_list) > 0

\* the control blocks the driver can still reach: the work list and the
\* chain i40e_tx_recycle_ring has taken off it
TcbsInFlight ==
    {rc.tcbhead[i] : i \in DOMAIN rc.tcbhead}
        \cup {itrq_tcb_work_list[i] :
                i \in {j \in DOMAIN itrq_tcb_work_list :
                         itrq_tcb_work_list[j] # NULL}}

\* frame m is inside a call of i40e_ring_tx, or a control block in flight
\* holds it in tcb_mp and will free it when it is reset
FrameOwned(m) ==
    \/ \E t \in TxThreads : tx[t].pc # "idle" /\ tx[t].mp = m
    \/ \E tcb \in TcbsInFlight : tcbs[tcb].tcb_mp = m

\* no frame is freed twice, and none is both returned and freed
C36_AtMostOneOutcome ==
    \A m \in Frames :
       /\ mp_frees[m] <= 1
       /\ m \in mp_returned => mp_frees[m] = 0

\* C36: every frame handed to i40e_ring_tx has exactly one outcome: the
\* driver frees it exactly once and the call returned null, or the call
\* returned it and the driver never frees it.  No frame is freed twice or
\* both returned and freed, and a frame that has had neither outcome yet is
\* still held by the call or by a control block that will free it.
C36_ExactlyOneOutcome ==
    /\ C36_AtMostOneOutcome
    /\ \A m \in 1 .. (mp_next - 1) :
          (mp_frees[m] = 0 /\ m \notin mp_returned) => FrameOwned(m)

\* the handle of block tcb that lso names is bound
HandleBound(tcb, lso) ==
    IF lso THEN tcbs[tcb].tcb_lso_bound ELSE tcbs[tcb].tcb_dma_bound

\* the block the bffail label of i40e_tx_bind_fragment has pushed on the
\* free list and has not yet unbound
TcbsAtBfPost ==
    {tx[t].bf_tcb : t \in {u \in TxThreads : tx[u].pc = "bffail_post"}}

\* no handle is unbound that is not bound: the handle i40e_tcb_reset is about
\* to unbind on a DMA block, and the handle bffail is about to unbind
C37_UnbindsAreOfBound ==
    /\ \A tcb \in TcbsToReset :
          (tcb # NULL /\ tcbs[tcb].tcb_type = "DMA")
              => HandleBound(tcb, tcbs[tcb].tcb_used_lso)
    /\ \A t \in TxThreads :
          (tx[t].pc = "bffail_post" /\ tx[t].bf_ncookies # 0)
              => HandleBound(tx[t].bf_tcb, UseLso(tx[t]))

\* every bind is undone once the block is given up: a block on the free list
\* has no bound handle, bffail's own unbind apart
C37_FreeBlocksAreUnbound ==
    \A i \in DOMAIN itrq_tcb_free_list :
       itrq_tcb_free_list[i] \notin TcbsAtBfPost
          => /\ ~tcbs[itrq_tcb_free_list[i]].tcb_dma_bound
             /\ ~tcbs[itrq_tcb_free_list[i]].tcb_lso_bound

\* C37: every successful DMA bind of i40e_tx_bind_fragment is matched by
\* exactly one unbind of the same handle, regular or LSO, and no handle is
\* unbound that was not bound, also when the bind succeeds and a later
\* allocation fails, and when the bind itself fails.
C37_BindsMatchUnbinds ==
    C37_UnbindsAreOfBound /\ C37_FreeBlocksAreUnbound

\* C38: a thread that has pushed a control block on the free list with
\* i40e_tcb_free neither reads nor writes it again, the failure path of
\* i40e_tx_bind_fragment included: no step of a call of i40e_ring_tx changes
\* a block the call holds neither before nor after the step, so that a
\* concurrent call that has popped the block never has its cookie list or
\* its cookie count changed by the releasing thread.
C38_NoWriteAfterFree ==
    [][\A t \in TxPair : \A tcb \in TcbIds :
          /\ (/\ tx'[t] # tx[t]
              /\ tcb \notin tx[t].held
              /\ tcb \notin tx'[t].held)
                 => tcbs'[tcb] = tcbs[tcb]
          /\ (/\ tx'[t] # tx[t]
              /\ \E u \in TxPair \ {t} : tcb \in tx[u].held)
                 => /\ tcbs'[tcb].tcb_bind_info = tcbs[tcb].tcb_bind_info
                    /\ tcbs'[tcb].tcb_bind_ncookies
                          = tcbs[tcb].tcb_bind_ncookies]_vars

\* the loop of i40e_free_rx_dma has gone through every block
FreeRxDmaDone == fr.pc \in {"shut", "tx", "done"}

\* i40e_rx_recycle decrements the pending counters in this step
RxRecyclePendStep ==
    rxr.pc = "pend" /\ rxr'.pc # "pend"

\* the counters never wrap below zero, and after the teardown the counter of
\* the ring is the number of blocks with a positive reference, once no
\* i40e_rx_recycle call is between its last decrement of a reference and its
\* decrement of the counters
C39_PendingCountsPositiveRefs ==
    /\ rxd_rcb_pending >= 0
    /\ i40e_rx_pending >= 0
    /\ (FreeRxDmaDone /\ rxr.pc # "pend") =>
          rxd_rcb_pending = Cardinality({r \in RcbIds : rcbs[r].rcb_ref > 0})

\* every decrement of i40e_rx_recycle comes after the increment
\* i40e_free_rx_dma made for the same block: the loop of the teardown is
\* over, both counters are positive, and they go down by one
C39_DecrementFollowsIncrement ==
    RxRecyclePendStep =>
        /\ FreeRxDmaDone
        /\ rxd_rcb_pending > 0
        /\ i40e_rx_pending > 0
        /\ rxd_rcb_pending' = rxd_rcb_pending - 1
        /\ i40e_rx_pending' = i40e_rx_pending - 1

\* C39: under every interleaving of i40e_free_rx_dma with i40e_rx_recycle
\* callbacks, rxd_rcb_pending and i40e_rx_pending never go below zero: each
\* decrement in i40e_rx_recycle is preceded by the matching increment in the
\* teardown, and after the teardown the counter of the ring equals the
\* number of control blocks whose reference is still positive, once the
\* recycle calls in flight have finished.
C39_PendingNeverNegative ==
    [](C39_PendingCountsPositiveRefs)
        /\ [][C39_DecrementFollowsIncrement]_vars

\* the teardown is in its loop, past a loaned block it has counted, while a
\* recycle call that took the last reference of that block waits for the lock
C39_Witness ==
    /\ fr.pc = "rcb"
    /\ rxr.pc = "pend"
    /\ rxr.rcb < fr.i
    /\ rcbs[rxr.rcb].rcb_ref = 0
    /\ rxd_rcb_pending >= 1
    /\ \E r \in RcbIds : r # rxr.rcb /\ rx_loaned[r] > 0
    /\ ~panicked

====
